---------------------------- MODULE Spec2Model ----------------------------
(***************************************************************************)
(* A model of the SayZhong learning-effectiveness scorer                   *)
(* (src/src/sayzhong/core/effectiveness_analyzer.py), of the helpers of    *)
(* learning_effectiveness.py and main.py, and of the FoundryLocal wrappers *)
(* (src/spike/FoundryLocal/src).                                           *)
(*                                                                         *)
(* Numbers.  The scorer computes with Python floats.  The model computes   *)
(* with exact rationals <<n, d>> (d > 0, lowest terms); the one irrational *)
(* quantity, the Pearson correlation of the difficulty trend, is kept as   *)
(* an exact quadratic surd  rat + coef * sqrt(rad).                        *)
(***************************************************************************)
EXTENDS Integers, Sequences, FiniteSets, TLC

VARIABLES
    interactions,         \* the List[LearningInteraction] handed to the scorer
    progress_data,        \* the progress summary (a dict: key -> number)
    op,                   \* the operation that ran last ("idle": none yet)
    result,               \* what that operation returned
    effectiveness_cache,  \* self.effectiveness_cache: key -> EffectivenessAnalysis
    data_lake_saved,      \* analyses written by _save_effectiveness_analysis
    args,                 \* the arguments of the last call of an operation
                          \* that takes them from its caller
    tasks,                \* the analyze_user_effectiveness coroutines in
                          \* flight: task id -> position and local variables
    calls,                \* the calls the last FoundryManager or service
                          \* operation made on its collaborators, in order
    service,              \* the attributes of the SemanticKernelFoundryService
                          \* object constructed last
    chat_history,         \* the caller's ChatHistory: a list of messages
    stream                \* the async generator streaming_chat_completion
                          \* returned last, and the stream underneath it

vars == <<interactions, progress_data, op, result, effectiveness_cache,
          data_lake_saved, args, tasks, calls, service, chat_history, stream>>

\* The state of the FoundryLocal wrappers, which the analyzer never touches.
foundry_state == <<calls, service, chat_history, stream>>

---------------------------------------------------------------------------
(* Exact rational arithmetic.                                              *)

Abs(n) == IF n < 0 THEN -n ELSE n

RECURSIVE Gcd(_, _)
Gcd(a, b) == IF b = 0 THEN a ELSE Gcd(b, a % b)

\* What a division by zero leaves behind.  Python raises ZeroDivisionError
\* (statistics.mean of no data raises StatisticsError) and the exception
\* leaves the operation: every computation on Undefined is Undefined again,
\* and an operation whose value is Undefined has raised.
Undefined == <<0, 0>>

\* n / d in lowest terms with a positive denominator.
Rat(n, d) ==
    IF d = 0 THEN Undefined
    ELSE LET g == Gcd(Abs(n), Abs(d))
             s == IF d < 0 THEN -1 ELSE 1
         IN  <<(s * n) \div g, (s * d) \div g>>

Zero == Rat(0, 1)
One == Rat(1, 1)
Half == Rat(1, 2)

RAdd(x, y) == Rat(x[1] * y[2] + y[1] * x[2], x[2] * y[2])
RSub(x, y) == Rat(x[1] * y[2] - y[1] * x[2], x[2] * y[2])
RMul(x, y) == Rat(x[1] * y[1], x[2] * y[2])
RDiv(x, y) == Rat(x[1] * y[2], x[2] * y[1])
RLe(x, y) == x[1] * y[2] <= y[1] * x[2]
RLt(x, y) == x[1] * y[2] < y[1] * x[2]
RMin(x, y) ==
    IF x[2] = 0 \/ y[2] = 0 THEN Undefined ELSE IF RLe(x, y) THEN x ELSE y
RMax(x, y) ==
    IF x[2] = 0 \/ y[2] = 0 THEN Undefined ELSE IF RLe(y, x) THEN x ELSE y
InUnit(x) == RLe(Zero, x) /\ RLe(x, One)

\* The integer square root of n >= 0 when n is a perfect square, else -1.
RECURSIVE SqrtFrom(_, _)
SqrtFrom(n, k) ==
    IF k * k = n THEN k
    ELSE IF k * k > n THEN -1
    ELSE SqrtFrom(n, k + 1)

IsSquare(x) == SqrtFrom(x[1], 0) >= 0 /\ SqrtFrom(x[2], 0) >= 0

(* A real number  rat + coef * sqrt(rad),  rad >= 0.  Normal form: when    *)
(* rad is the square of a rational (or coef = 0) the root is folded into   *)
(* rat and coef = rad = 0, so a value is rational iff its coef is 0.       *)
Surd(rat, coef, rad) ==
    IF rat[2] = 0 \/ coef[2] = 0 \/ rad[2] = 0
        THEN [rat |-> Undefined, coef |-> Zero, rad |-> Zero]
    ELSE IF coef = Zero \/ rad = Zero
        THEN [rat |-> rat, coef |-> Zero, rad |-> Zero]
    ELSE IF IsSquare(rad)
        THEN [rat  |-> RAdd(rat, RMul(coef, Rat(SqrtFrom(rad[1], 0),
                                                 SqrtFrom(rad[2], 0)))),
              coef |-> Zero, rad |-> Zero]
    ELSE [rat |-> rat, coef |-> coef, rad |-> rad]

FromRat(x) == Surd(x, Zero, Zero)

\* c * v + a  for rationals c, a.
SScaleAdd(c, v, a) == Surd(RAdd(RMul(c, v.rat), a), RMul(c, v.coef), v.rad)

\* v <= x  and  x <= v  for a surd v and a rational x, decided by squaring.
SLeRat(v, x) ==
    LET t == RSub(x, v.rat)                      \* coef * sqrt(rad) <= t ?
        lhs2 == RMul(RMul(v.coef, v.coef), v.rad)
        t2 == RMul(t, t)
    IN  IF RLe(Zero, v.coef)
            THEN RLe(Zero, t) /\ RLe(lhs2, t2)
            ELSE RLe(Zero, t) \/ RLe(t2, lhs2)

RatLeS(x, v) ==
    LET t == RSub(x, v.rat)                      \* t <= coef * sqrt(rad) ?
        rhs2 == RMul(RMul(v.coef, v.coef), v.rad)
        t2 == RMul(t, t)
    IN  IF RLe(Zero, v.coef)
            THEN RLe(t, Zero) \/ RLe(t2, rhs2)
            ELSE RLe(t, Zero) /\ RLe(rhs2, t2)

SInUnit(v) == RatLeS(Zero, v) /\ SLeRat(v, One)


---------------------------------------------------------------------------
(* The data model (learning_effectiveness.py).                             *)

\* LearningDifficulty, in declaration order.
LearningDifficulty ==
    <<"beginner", "elementary", "intermediate", "advanced", "native">>

\* The difficulty_values dict of _calculate_difficulty_trend.
difficulty_values ==
    [d \in {LearningDifficulty[k] : k \in 1..5} |->
        CHOOSE k \in 1..5 : LearningDifficulty[k] = d]

\* Optional[...] = None.
None == <<>>

\* A LearningInteraction.  timestamp counts whole hours from an epoch that
\* starts at midnight; latency, hints and attempts are integers, the
\* confidence is None or a rational.  The dataclass validates nothing, so
\* any value of the field's type can be stored.
Interaction(user, ts, content, level, correct, latency, confidence, hints, att) ==
    [user_id |-> user, timestamp |-> ts, content_id |-> content,
     difficulty_level |-> level, is_correct |-> correct,
     response_time_seconds |-> latency, confidence_level |-> confidence,
     hints_used |-> hints, attempts |-> att]

\* datetime.hour of a timestamp.
HourOf(ts) == ts % 24

\* The data-model invariants of a record (spec.md section 3); the code
\* never checks them.
ValidInteraction(i) ==
    /\ i.response_time_seconds >= 0
    /\ i.hints_used >= 0
    /\ i.attempts >= 1
    /\ (i.confidence_level = None \/ InUnit(i.confidence_level))

AllValid(s) == \A k \in DOMAIN s : ValidInteraction(s[k])

\* A record with a negative latency, hint count or attempt count.
HasNegativeField(i) ==
    i.response_time_seconds < 0 \/ i.hints_used < 0 \/ i.attempts < 0

---------------------------------------------------------------------------
(* Helpers for Python's built-ins.                                         *)

RECURSIVE SeqSum(_)
SeqSum(xs) == IF xs = <<>> THEN 0 ELSE xs[1] + SeqSum(Tail(xs))

RECURSIVE RatSum(_)
RatSum(xs) == IF xs = <<>> THEN Zero ELSE RAdd(xs[1], RatSum(Tail(xs)))

\* statistics.mean of a non-empty sequence of integers / of rationals.
Mean(xs) == Rat(SeqSum(xs), Len(xs))
MeanRat(xs) == RDiv(RatSum(xs), Rat(Len(xs), 1))

\* sum(1 for i in s if i.is_correct)
CountCorrect(s) == Cardinality({k \in DOMAIN s : s[k].is_correct})

\* Mutant: the list is used in the order the caller gave it.
Unsorted(s) == s

\* sorted(s, key=lambda x: x.timestamp): a stable sort.
RECURSIVE InsertByTimestamp(_, _)
InsertByTimestamp(x, s) ==
    IF s = <<>> THEN <<x>>
    ELSE IF s[Len(s)].timestamp <= x.timestamp THEN Append(s, x)
    ELSE Append(InsertByTimestamp(x, SubSeq(s, 1, Len(s) - 1)), s[Len(s)])

RECURSIVE SortedByTimestamp(_)
SortedByTimestamp(s) ==
    IF s = <<>> THEN <<>>
    ELSE InsertByTimestamp(s[Len(s)], SortedByTimestamp(SubSeq(s, 1, Len(s) - 1)))

\* s[:3] and s[-3:]
FirstThree(s) == SubSeq(s, 1, IF Len(s) < 3 THEN Len(s) ELSE 3)
LastThree(s) == SubSeq(s, IF Len(s) < 3 THEN 1 ELSE Len(s) - 2, Len(s))

Min2(a, b) == IF a <= b THEN a ELSE b

---------------------------------------------------------------------------
(* The scoring operations (effectiveness_analyzer.py).                     *)

\* Mutant: the weights of accuracy and response efficiency are swapped.
ImmediateWeightsSwapped(s) ==
    LET accuracy == Rat(CountCorrect(s), Len(s))
        avg_response_time ==
            Mean([k \in DOMAIN s |-> s[k].response_time_seconds])
        response_efficiency ==
            RMax(Zero, RSub(One, RDiv(avg_response_time, Rat(30, 1))))
        avg_hints == Mean([k \in DOMAIN s |-> s[k].hints_used])
        avg_attempts == Mean([k \in DOMAIN s |-> s[k].attempts])
        engagement ==
            RMax(Zero, RSub(RSub(One, RDiv(avg_hints, Rat(3, 1))),
                            RDiv(RSub(avg_attempts, One), Rat(2, 1))))
    IN  RAdd(RAdd(RMul(accuracy, Rat(3, 10)),
                  RMul(response_efficiency, Rat(1, 2))),
             RMul(engagement, Rat(1, 5)))

\* Lines 431-446: the immediate score of a non-empty sequence.
ImmediateOfNonEmpty(s) ==
    LET accuracy == Rat(CountCorrect(s), Len(s))
        avg_response_time ==
            Mean([k \in DOMAIN s |-> s[k].response_time_seconds])
        response_efficiency ==
            RMax(Zero, RSub(One, RDiv(avg_response_time, Rat(30, 1))))
        avg_hints == Mean([k \in DOMAIN s |-> s[k].hints_used])
        avg_attempts == Mean([k \in DOMAIN s |-> s[k].attempts])
        engagement ==
            RMax(Zero, RSub(RSub(One, RDiv(avg_hints, Rat(3, 1))),
                            RDiv(RSub(avg_attempts, One), Rat(2, 1))))
    IN  RAdd(RAdd(RMul(accuracy, Rat(1, 2)),
                  RMul(response_efficiency, Rat(3, 10))),
             RMul(engagement, Rat(1, 5)))

\* Mutant: the empty sequence gets the neutral 0.5 used elsewhere.
ImmediateNeutralOnEmpty(s) ==
    IF s = <<>> THEN Half ELSE ImmediateOfNonEmpty(s)

\* Mutant: the score of a learner with a cached analysis is taken from the
\* cache.
ImmediateFromCache(s) ==
    IF effectiveness_cache # <<>>
        THEN effectiveness_cache[CHOOSE key \in DOMAIN effectiveness_cache : TRUE]
                 .immediate_effectiveness
    ELSE IF s = <<>> THEN Zero
    ELSE ImmediateOfNonEmpty(s)

\* _calculate_immediate_effectiveness
CalculateImmediateEffectiveness(s) ==
    IF s = <<>> THEN Zero ELSE ImmediateOfNonEmpty(s)

\* content_groups[content_id]: the interactions of one content, in list order.
ContentGroup(s, c) == SelectSeq(s, LAMBDA i : i.content_id = c)

\* Mutant: the ratio later/initial is not capped at 1.0.
RetentionScoreUncapped(content_interactions) ==
    LET sorted_interactions == SortedByTimestamp(content_interactions)
        window == Min2(3, Len(sorted_interactions))
        initial_performance ==
            Rat(CountCorrect(FirstThree(sorted_interactions)), window)
        later_performance ==
            Rat(CountCorrect(LastThree(sorted_interactions)), window)
    IN  IF RLt(Zero, initial_performance)
            THEN RDiv(later_performance, initial_performance)
            ELSE Half

\* The retention_score appended for one content group of 2 or more.
RetentionScore(content_interactions) ==
    LET sorted_interactions == SortedByTimestamp(content_interactions)
        window == Min2(3, Len(sorted_interactions))
        initial_performance ==
            Rat(CountCorrect(FirstThree(sorted_interactions)), window)
        later_performance ==
            Rat(CountCorrect(LastThree(sorted_interactions)), window)
        retention_score ==
            IF RLt(Zero, initial_performance)
                THEN RDiv(later_performance, initial_performance)
                ELSE Half
    IN  RMin(retention_score, One)

\* Mutant: a content with a single interaction is scored too.
ScoredContentsWithSingles(s) == {s[k].content_id : k \in DOMAIN s}

\* The content ids whose group passes "len(content_interactions) < 2: continue".
ScoredContents(s) ==
    {c \in {s[k].content_id : k \in DOMAIN s} : Len(ContentGroup(s, c)) >= 2}

RECURSIVE RetentionSum(_, _)
RetentionSum(s, cs) ==
    IF cs = {} THEN Zero
    ELSE LET c == CHOOSE x \in cs : TRUE
         IN  RAdd(RetentionScore(ContentGroup(s, c)), RetentionSum(s, cs \ {c}))

\* _calculate_retention_effectiveness (retention_data is never read)
CalculateRetentionEffectiveness(s) ==
    LET scored == ScoredContents(s)
    IN  IF scored = {} THEN Half
        ELSE RDiv(RetentionSum(s, scored), Rat(Cardinality(scored), 1))


\* progress_data.get(key, 0)
Get(d, key) == IF key \in DOMAIN d THEN d[key] ELSE Zero

\* Mutant: the mastery rate is not capped at 1.0.
ProgressionMasteryUncapped(p) ==
    IF DOMAIN p = {} THEN Half
    ELSE
      LET normalized_progression ==
              RMin(RDiv(Get(p, "difficulty_progression"), Rat(5, 1)), One)
          normalized_velocity ==
              RMin(RDiv(Get(p, "learning_velocity"), Rat(10, 1)), One)
      IN  RAdd(RAdd(RMul(normalized_progression, Rat(2, 5)),
                    RMul(Get(p, "mastery_rate"), Rat(2, 5))),
               RMul(normalized_velocity, Rat(1, 5)))

\* _calculate_progression_effectiveness
CalculateProgressionEffectiveness(p) ==
    IF DOMAIN p = {} THEN Half
    ELSE
      LET difficulty_progression == Get(p, "difficulty_progression")
          mastery_rate == Get(p, "mastery_rate")
          learning_velocity == Get(p, "learning_velocity")
          normalized_progression ==
              RMin(RDiv(difficulty_progression, Rat(5, 1)), One)
          normalized_mastery == RMin(mastery_rate, One)
          normalized_velocity ==
              RMin(RDiv(learning_velocity, Rat(10, 1)), One)
      IN  RAdd(RAdd(RMul(normalized_progression, Rat(2, 5)),
                    RMul(normalized_mastery, Rat(2, 5))),
               RMul(normalized_velocity, Rat(1, 5)))

\* sum(f(i) for i in range(n)) over rationals.
RECURSIVE RatSumTo(_, _)
RatSumTo(f, n) == IF n = 0 THEN Zero ELSE RAdd(f[n], RatSumTo(f, n - 1))

\* max(0, v) for a surd v.
SMax0(v) ==
    IF v.rat = Undefined THEN v
    ELSE IF SLeRat(v, Zero) THEN FromRat(Zero) ELSE v

\* Mutant: only the zero variance of the positions is caught.
ZeroVarianceOfPositions(denominator_x, denominator_y) == denominator_x = Zero

\* if denominator_x == 0 or denominator_y == 0
ZeroVariance(denominator_x, denominator_y) ==
    denominator_x = Zero \/ denominator_y = Zero

\* _calculate_difficulty_trend.  x_values are 0 .. n-1; index k of the model
\* is index k-1 of the code.
CalculateDifficultyTrend(s) ==
    IF Len(s) < 3 THEN FromRat(Half)
    ELSE
      LET sorted_interactions == SortedByTimestamp(s)
          difficulties ==
              [k \in DOMAIN sorted_interactions |->
                  difficulty_values[sorted_interactions[k].difficulty_level]]
          n == Len(difficulties)
          x_values == [k \in 1..n |-> k - 1]
          mean_x == Rat(SeqSum(x_values), n)
          mean_y == Rat(SeqSum(difficulties), n)
          dev_x == [k \in 1..n |-> RSub(Rat(x_values[k], 1), mean_x)]
          dev_y == [k \in 1..n |-> RSub(Rat(difficulties[k], 1), mean_y)]
          numerator == RatSumTo([k \in 1..n |-> RMul(dev_x[k], dev_y[k])], n)
          denominator_x ==
              RatSumTo([k \in 1..n |-> RMul(dev_x[k], dev_x[k])], n)
          denominator_y ==
              RatSumTo([k \in 1..n |-> RMul(dev_y[k], dev_y[k])], n)
      IN  IF n < 2 THEN FromRat(Half)
          ELSE IF ZeroVariance(denominator_x, denominator_y)
              THEN FromRat(Half)
          ELSE
            \* numerator / math.sqrt(denominator_x * denominator_y)
            LET correlation ==
                    Surd(Zero, numerator,
                         RDiv(One, RMul(denominator_x, denominator_y)))
            IN  SMax0(SScaleAdd(Half, correlation, Half))

\* Mutant: a missing confidence counts as a confidence of 0.
ConfidenceScoresNoneAsZero(s) ==
    [k \in DOMAIN s |->
        IF s[k].confidence_level = None THEN Zero ELSE s[k].confidence_level]

\* [i.confidence_level for i in interactions if i.confidence_level is not None]
ConfidenceScores(s) ==
    LET kept == SelectSeq(s, LAMBDA i : i.confidence_level # None)
    IN  [k \in DOMAIN kept |-> kept[k].confidence_level]

\* min(max(v, 0.0), 1.0) for a surd v.
Clamp01(v) ==
    LET lower == IF SLeRat(v, Zero) THEN FromRat(Zero) ELSE v
    IN  IF v.rat = Undefined THEN v
        ELSE IF SLeRat(lower, One) THEN lower ELSE FromRat(One)

\* calculate_real_time_effectiveness
CalculateRealTimeEffectiveness(s) ==
    IF s = <<>> THEN FromRat(Half)
    ELSE
      LET accuracy == Rat(CountCorrect(s), Len(s))
          avg_response_time ==
              Mean([k \in DOMAIN s |-> s[k].response_time_seconds])
          response_efficiency ==
              RMax(Zero, RSub(One, RDiv(avg_response_time, Rat(30, 1))))
          confidence_scores == ConfidenceScores(s)
          avg_confidence ==
              IF confidence_scores # <<>> THEN MeanRat(confidence_scores)
              ELSE Half
          difficulty_trend == CalculateDifficultyTrend(s)
          effectiveness ==
              SScaleAdd(Rat(1, 5), difficulty_trend,
                        RAdd(RAdd(RMul(accuracy, Rat(2, 5)),
                                  RMul(response_efficiency, Rat(1, 5))),
                             RMul(avg_confidence, Rat(1, 5))))
      IN  Clamp01(effectiveness)

\* overall_effectiveness of analyze_user_effectiveness
OverallEffectiveness(immediate, retention, progression) ==
    RAdd(RAdd(RMul(immediate, Rat(2, 5)), RMul(retention, Rat(2, 5))),
         RMul(progression, Rat(1, 5)))

---------------------------------------------------------------------------
(* Pattern identification.                                                 *)

\* The keys of hour_performance, in dict insertion order.
RECURSIVE HoursSeen(_)
HoursSeen(s) ==
    IF s = <<>> THEN <<>>
    ELSE LET before == HoursSeen(SubSeq(s, 1, Len(s) - 1))
             hour == HourOf(s[Len(s)].timestamp)
         IN  IF \E k \in DOMAIN before : before[k] = hour
                 THEN before ELSE Append(before, hour)

\* hour_performance[hour]: the is_correct flags of that hour's interactions.
HourPerformance(s, hour) ==
    SelectSeq(s, LAMBDA i : HourOf(i.timestamp) = hour)

\* Mutant: the sample-size floor is 4 instead of 5.
IsBestHourFloorFour(s, hour) ==
    LET performance == HourPerformance(s, hour)
    IN  /\ Len(performance) >= 4
        /\ RLt(Rat(4, 5), Rat(CountCorrect(performance), Len(performance)))

\* The "minimum sample size" and "high performance threshold" test.
IsBestHour(s, hour) ==
    LET performance == HourPerformance(s, hour)
    IN  /\ Len(performance) >= 5
        /\ RLt(Rat(4, 5), Rat(CountCorrect(performance), Len(performance)))

BestHours(s) == SelectSeq(HoursSeen(s), LAMBDA hour : IsBestHour(s, hour))

\* _identify_learning_patterns_ai (progress_data and retention_data are
\* never read)
IdentifyLearningPatternsAI(s) ==
    IF s = <<>> THEN <<>>
    ELSE LET best_hours == BestHours(s)
         IN  IF best_hours # <<>>
                 THEN << [pattern_id |-> "optimal_timing_0",
                          pattern_type |-> "optimal_timing",
                          effectiveness_score |-> Rat(4, 5),
                          frequency |-> Len(best_hours),
                          applicable_users |-> <<s[1].user_id>>,
                          conditions |-> [optimal_hours |-> best_hours],
                          outcomes |-> [accuracy_improvement |-> Rat(1, 5)]] >>
                 ELSE <<>>

\* The placeholder pattern finders: each returns None, the last one [].
IdentifyOptimalTimingPattern(s) == None
IdentifyContentPreferencePattern(s) == None
IdentifyDifficultyProgressionPattern(s) == None
IdentifyLearningVelocityPattern(s) == None
IdentifyAdvancedPatternsAI(user_data) == <<>>

\* "if pattern: patterns.append(pattern)"
AppendIfFound(patterns, pattern) ==
    IF pattern # None THEN Append(patterns, pattern) ELSE patterns

\* identify_learning_patterns; user_data is a dict with key "interactions".
IdentifyLearningPatterns(user_data) ==
    LET its == IF "interactions" \in DOMAIN user_data
                   THEN user_data["interactions"] ELSE <<>>
        p1 == AppendIfFound(<<>>, IdentifyOptimalTimingPattern(its))
        p2 == AppendIfFound(p1, IdentifyContentPreferencePattern(its))
        p3 == AppendIfFound(p2, IdentifyDifficultyProgressionPattern(its))
        p4 == AppendIfFound(p3, IdentifyLearningVelocityPattern(its))
    IN  p4 \o IdentifyAdvancedPatternsAI(user_data)

---------------------------------------------------------------------------
(* analyze_user_effectiveness.                                             *)

\* The scores and patterns of an EffectivenessAnalysis (its free-text
\* strengths and recommendations are not modelled).
EffectivenessAnalysis(user_id, days, imm, ret, prog, overall, patterns) ==
    [user_id |-> user_id, timeframe_days |-> days,
     immediate_effectiveness |-> imm,
     retention_effectiveness |-> ret,
     progression_effectiveness |-> prog,
     overall_effectiveness |-> overall,
     learning_patterns |-> patterns]

\* Mutant: the empty analysis reports an overall effectiveness of 0.
CreateEmptyAnalysisZeroOverall(user_id, timeframe_days) ==
    EffectivenessAnalysis(user_id, timeframe_days, Half, Half, Half, Zero, <<>>)

\* _create_empty_analysis
CreateEmptyAnalysis(user_id, timeframe_days) ==
    EffectivenessAnalysis(user_id, timeframe_days, Half, Half, Half, Half, <<>>)

\* Mutant: the interactions of every learner are returned.
GetUserInteractionsOfAll(user_id) == SortedByTimestamp(interactions)

\* _get_user_interactions: the learner's stored interactions,
\* sorted(interactions, key=lambda x: x.timestamp).
GetUserInteractions(user_id) ==
    SortedByTimestamp(SelectSeq(interactions, LAMBDA i : i.user_id = user_id))

\* The analysis built on the path with data (lines 88-136).
BuildAnalysis(user_id, timeframe_days, its, progress) ==
    LET immediate_effectiveness == CalculateImmediateEffectiveness(its)
        retention_effectiveness == CalculateRetentionEffectiveness(its)
        progression_effectiveness == CalculateProgressionEffectiveness(progress)
    IN  EffectivenessAnalysis(
            user_id, timeframe_days, immediate_effectiveness,
            retention_effectiveness, progression_effectiveness,
            OverallEffectiveness(immediate_effectiveness,
                                 retention_effectiveness,
                                 progression_effectiveness),
            IdentifyLearningPatternsAI(its))

\* Mutant: the key is built without the separator.
CacheKeyUnseparated(user_id, timeframe_days) ==
    user_id \o ToString(timeframe_days)

\* f"{user_id}_{timeframe_days}"
CacheKey(user_id, timeframe_days) == user_id \o "_" \o ToString(timeframe_days)

\* The analysis_data dict that _save_effectiveness_analysis writes.
AnalysisData(analysis) ==
    [timeframe_days |-> analysis.timeframe_days,
     immediate_effectiveness |-> analysis.immediate_effectiveness,
     retention_effectiveness |-> analysis.retention_effectiveness,
     progression_effectiveness |-> analysis.progression_effectiveness,
     overall_effectiveness |-> analysis.overall_effectiveness]

---------------------------------------------------------------------------
(* Outcomes of an operation.                                               *)

NoResult == [kind |-> "none", value |-> <<>>]
Returned(v) == [kind |-> "returned", value |-> v]
Raised(e) == [kind |-> "raised", value |-> e]

\* The outcome of an operation that computed the rational x / the surd v.
Outcome(x) ==
    IF x = Undefined THEN Raised("ZeroDivisionError") ELSE Returned(x)
SurdOutcome(v) ==
    IF v.rat = Undefined THEN Raised("ZeroDivisionError") ELSE Returned(v)

\* An exception in the calculations of analyze_user_effectiveness.
CalculationRaised(analysis) ==
    Undefined \in {analysis.immediate_effectiveness,
                   analysis.retention_effectiveness,
                   analysis.progression_effectiveness}

---------------------------------------------------------------------------
(* The operations as actions.  Logging an interaction models the external  *)
(* interaction-logging collaborator; every other action is one call on the *)
(* analyzer with the current interactions / progress summary.              *)

LogInteraction(i, max) ==
    /\ Len(interactions) < max
    /\ interactions' = Append(interactions, i)
    /\ op' = "idle"
    /\ result' = NoResult
    /\ UNCHANGED <<foundry_state, progress_data, effectiveness_cache,
                   data_lake_saved,
                   args, tasks>>

\* What a call that only returns a value leaves alone.
analyzer_state == <<interactions, progress_data, effectiveness_cache,
                    data_lake_saved, args, tasks, foundry_state>>

ImmediateEffectiveness ==
    /\ op' = "immediate"
    /\ result' = Outcome(CalculateImmediateEffectiveness(interactions))
    /\ UNCHANGED analyzer_state

\* Mutant: the caller's list is sorted in place (list.sort).
RetentionEffectivenessSortingInPlace ==
    /\ op' = "retention"
    /\ result' = Outcome(CalculateRetentionEffectiveness(interactions))
    /\ interactions' = SortedByTimestamp(interactions)
    /\ UNCHANGED <<foundry_state, progress_data, effectiveness_cache,
                   data_lake_saved,
                   args, tasks>>

RetentionEffectiveness ==
    /\ op' = "retention"
    /\ result' = Outcome(CalculateRetentionEffectiveness(interactions))
    /\ UNCHANGED analyzer_state

ProgressionEffectiveness ==
    /\ op' = "progression"
    /\ result' = Outcome(CalculateProgressionEffectiveness(progress_data))
    /\ UNCHANGED analyzer_state

RealTimeEffectiveness ==
    /\ op' = "real_time"
    /\ result' = SurdOutcome(CalculateRealTimeEffectiveness(interactions))
    /\ UNCHANGED analyzer_state

DifficultyTrend ==
    /\ op' = "trend"
    /\ result' = SurdOutcome(CalculateDifficultyTrend(interactions))
    /\ UNCHANGED analyzer_state

LearningPatternsAI ==
    /\ op' = "patterns_ai"
    /\ result' = Returned(IdentifyLearningPatternsAI(interactions))
    /\ UNCHANGED analyzer_state

LearningPatterns ==
    /\ op' = "patterns"
    /\ result' = Returned(IdentifyLearningPatterns([interactions |-> interactions,
                                            progress |-> progress_data]))
    /\ UNCHANGED analyzer_state

\* analyze_user_effectiveness with a data lake that answers every read and
\* write, and no performance manager.
AnalyzeUserEffectiveness(user_id, timeframe_days) ==
    LET its == GetUserInteractions(user_id)
        analysis == BuildAnalysis(user_id, timeframe_days, its, progress_data)
    IN  /\ op' = "analyze"
        /\ UNCHANGED <<foundry_state, interactions, progress_data, args, tasks>>
        /\ IF its = <<>> \/ CalculationRaised(analysis)
              THEN /\ result' = Returned(CreateEmptyAnalysis(user_id, timeframe_days))
                   /\ UNCHANGED <<effectiveness_cache, data_lake_saved>>
              ELSE /\ effectiveness_cache' =
                         (CacheKey(user_id, timeframe_days) :> analysis)
                             @@ effectiveness_cache
                   /\ data_lake_saved' =
                         (user_id :> AnalysisData(analysis)) @@ data_lake_saved
                   /\ result' = Returned(analysis)

\* The places where a collaborator of analyze_user_effectiveness can raise
\* or return nothing; "none" when every collaborator answers.
Faults == {"none", "get_user_interactions", "get_user_progress",
           "get_retention_data", "calculate", "save", "track_performance"}

\* analyze_user_effectiveness when a collaborator raises:
\*   get_user_interactions  the data lake read fails or returns None;
\*                          _get_user_interactions returns [] (lines
\*                          350-352): the no-data path;
\*   get_user_progress      the read of the progress file fails or returns
\*                          None; _get_user_progress returns {} (lines
\*                          377-379) and the analysis is built without a
\*                          progress summary;
\*   get_retention_data     the read of the retention file fails;
\*                          _get_retention_data returns {} (lines 389-391),
\*                          which no calculation reads;
\*   calculate              an exception in lines 87-136 (a progress value
\*                          that is not a number, say): the handler of lines
\*                          153-155 returns the empty analysis;
\*   save                   the data lake write fails;
\*                          _save_effectiveness_analysis swallows it (lines
\*                          747-748) and the analysis is returned;
\*   track_performance      the performance manager raises after the analysis
\*                          was cached and saved (lines 145-149): the handler
\*                          returns the empty analysis.
AnalyzeWithFault(user_id, timeframe_days, fault) ==
    LET its == IF fault = "get_user_interactions" THEN <<>>
               ELSE GetUserInteractions(user_id)
        progress == IF fault = "get_user_progress" THEN <<>>
                    ELSE progress_data
        analysis == BuildAnalysis(user_id, timeframe_days, its, progress)
        cached == (CacheKey(user_id, timeframe_days) :> analysis)
                      @@ effectiveness_cache
    IN  /\ op' = "analyze"
        /\ UNCHANGED <<foundry_state, interactions, progress_data, tasks>>
        /\ IF its = <<>> \/ fault = "calculate" \/ CalculationRaised(analysis)
              THEN /\ result' = Returned(CreateEmptyAnalysis(user_id, timeframe_days))
                   /\ UNCHANGED <<effectiveness_cache, data_lake_saved>>
              ELSE IF fault = "save"
              THEN /\ effectiveness_cache' = cached
                   /\ UNCHANGED data_lake_saved
                   /\ result' = Returned(analysis)
              ELSE IF fault = "track_performance"
              THEN /\ effectiveness_cache' = cached
                   /\ data_lake_saved' =
                         (user_id :> AnalysisData(analysis)) @@ data_lake_saved
                   /\ result' = Returned(CreateEmptyAnalysis(user_id, timeframe_days))
              ELSE /\ effectiveness_cache' = cached
                   /\ data_lake_saved' =
                         (user_id :> AnalysisData(analysis)) @@ data_lake_saved
                   /\ result' = Returned(analysis)

\* The call with a failing collaborator, among calls of the scoring
\* operations, which take no argument from the model's caller.
AnalyzeUserEffectivenessFailing(user_id, timeframe_days, fault) ==
    /\ AnalyzeWithFault(user_id, timeframe_days, fault)
    /\ UNCHANGED args

\* The call as its caller sees it: the arguments are kept beside the
\* result.
AnalyzeUserEffectivenessCall(user_id, timeframe_days, fault) ==
    /\ AnalyzeWithFault(user_id, timeframe_days, fault)
    /\ args' = [user_id |-> user_id, timeframe_days |-> timeframe_days,
                fault |-> fault]

---------------------------------------------------------------------------
(* analyze_user_effectiveness as a coroutine.  A coroutine runs without    *)
(* interruption from one data lake request to the next; the event loop may *)
(* run another task whenever a request is awaited.  Each action below is   *)
(* the completion of the awaited request together with the code that runs  *)
(* up to the next request.  The scoring coroutines awaited in lines 88-121 *)
(* make no request, so lines 87-139 run in one piece.  A session file      *)
(* holds one interaction.                                                  *)

\* The session files list_files finds for a learner, one interaction each.
SessionFiles(user_id) == SelectSeq(interactions, LAMBDA i : i.user_id = user_id)

\* The local variables of a call that has just begun: list_files is awaited
\* (line 334).
NewTask(user_id, timeframe_days) ==
    [pc |-> "list_files", user_id |-> user_id,
     timeframe_days |-> timeframe_days, files |-> 0, files_read |-> 0,
     interactions |-> <<>>, progress_data |-> <<>>, returned |-> None]

TaskStart(t, user_id, timeframe_days) ==
    /\ t \notin DOMAIN tasks
    /\ \A u \in DOMAIN tasks : tasks[u].pc # "done"
    /\ tasks' = (t :> NewTask(user_id, timeframe_days)) @@ tasks
    /\ UNCHANGED <<foundry_state, interactions, progress_data, op, result,
                   effectiveness_cache, data_lake_saved, args>>

\* list_files answers (line 334): the first read_json is awaited (line 340),
\* or with no file the sorted empty list is returned and the progress file
\* is requested (line 360).
TaskListFiles(t) ==
    /\ t \in DOMAIN tasks
    /\ tasks[t].pc = "list_files"
    /\ LET n == Len(SessionFiles(tasks[t].user_id))
       IN  tasks' = [tasks EXCEPT ![t].files = n,
                                  ![t].pc = IF n = 0 THEN "progress"
                                            ELSE "read_json"]
    /\ UNCHANGED <<foundry_state, interactions, progress_data, op, result,
                   effectiveness_cache, data_lake_saved, args>>

\* Mutant: the list the files are collected in is an attribute of the
\* analyzer, shared by the calls in flight.
TaskReadFileShared(t) ==
    /\ t \in DOMAIN tasks
    /\ tasks[t].pc = "read_json"
    /\ LET file == SessionFiles(tasks[t].user_id)[tasks[t].files_read + 1]
           last == tasks[t].files_read + 1 = tasks[t].files
       IN  tasks' =
             [u \in DOMAIN tasks |->
                LET collected == Append(tasks[u].interactions, file)
                IN  IF u # t
                      THEN [tasks[u] EXCEPT !.interactions = collected]
                      ELSE [tasks[u] EXCEPT
                              !.files_read = @ + 1,
                              !.interactions =
                                  IF last THEN SortedByTimestamp(collected)
                                  ELSE collected,
                              !.pc = IF last THEN "progress" ELSE "read_json"]]
    /\ UNCHANGED <<foundry_state, interactions, progress_data, op, result,
                   effectiveness_cache, data_lake_saved, args>>

\* read_json answers (line 340): the interactions of the file are appended
\* (lines 341-346); after the last file the list is sorted and returned
\* (line 348) and the progress file is requested (line 360).
TaskReadFile(t) ==
    /\ t \in DOMAIN tasks
    /\ tasks[t].pc = "read_json"
    /\ LET file == SessionFiles(tasks[t].user_id)[tasks[t].files_read + 1]
           collected == Append(tasks[t].interactions, file)
           last == tasks[t].files_read + 1 = tasks[t].files
       IN  tasks' = [tasks EXCEPT
                        ![t].files_read = @ + 1,
                        ![t].interactions =
                            IF last THEN SortedByTimestamp(collected)
                            ELSE collected,
                        ![t].pc = IF last THEN "progress" ELSE "read_json"]
    /\ UNCHANGED <<foundry_state, interactions, progress_data, op, result,
                   effectiveness_cache, data_lake_saved, args>>

\* The progress file answers (line 360); the retention file is requested
\* (line 387).
TaskReadProgress(t) ==
    /\ t \in DOMAIN tasks
    /\ tasks[t].pc = "progress"
    /\ tasks' = [tasks EXCEPT ![t].progress_data = progress_data,
                              ![t].pc = "retention"]
    /\ UNCHANGED <<foundry_state, interactions, progress_data, op, result,
                   effectiveness_cache, data_lake_saved, args>>

\* The retention file answers (line 387).  With no interactions the empty
\* analysis is returned (lines 84-85); otherwise the analysis is built and
\* cached (lines 87-139) and the save is awaited (line 142).
TaskCalculate(t) ==
    /\ t \in DOMAIN tasks
    /\ tasks[t].pc = "retention"
    /\ LET task == tasks[t]
           analysis == BuildAnalysis(task.user_id, task.timeframe_days,
                                     task.interactions, task.progress_data)
           empty == CreateEmptyAnalysis(task.user_id, task.timeframe_days)
       IN  IF task.interactions = <<>> \/ CalculationRaised(analysis)
             THEN /\ tasks' = [tasks EXCEPT ![t].pc = "done",
                                            ![t].returned = empty]
                  /\ op' = "analyze"
                  /\ result' = Returned(empty)
                  /\ UNCHANGED effectiveness_cache
             ELSE /\ tasks' = [tasks EXCEPT ![t].pc = "save",
                                            ![t].returned = analysis]
                  /\ effectiveness_cache' =
                        (CacheKey(task.user_id, task.timeframe_days)
                            :> analysis) @@ effectiveness_cache
                  /\ UNCHANGED <<op, result>>
    /\ UNCHANGED <<foundry_state, interactions, progress_data, data_lake_saved, args>>

\* save_json answers (line 746); the analysis is returned (line 151).
TaskSave(t) ==
    /\ t \in DOMAIN tasks
    /\ tasks[t].pc = "save"
    /\ tasks' = [tasks EXCEPT ![t].pc = "done"]
    /\ data_lake_saved' =
          (tasks[t].user_id :> AnalysisData(tasks[t].returned))
              @@ data_lake_saved
    /\ op' = "analyze"
    /\ result' = Returned(tasks[t].returned)
    /\ UNCHANGED <<foundry_state, interactions, progress_data, effectiveness_cache, args>>

---------------------------------------------------------------------------
(* calculate_learning_progress (main.py) and FoundryManager.is_available   *)
(* (spike/FoundryLocal/src/foundry_manager.py).                            *)

\* Mutant: the percentage is capped at 100.
LearningProgressCapped(completed_lessons, total_lessons) ==
    IF total_lessons <= 0 THEN Raised("ValueError")
    ELSE Returned(RMin(RMul(Rat(completed_lessons, total_lessons),
                            Rat(100, 1)),
                       Rat(100, 1)))

\* Mutant: only a negative total is rejected.
LearningProgressZeroTotalDivided(completed_lessons, total_lessons) ==
    IF total_lessons < 0 THEN Raised("ValueError")
    ELSE Outcome(RMul(Rat(completed_lessons, total_lessons), Rat(100, 1)))

\* calculate_learning_progress
CalculateLearningProgress(completed_lessons, total_lessons) ==
    IF total_lessons <= 0 THEN Raised("ValueError")
    ELSE Returned(RMul(Rat(completed_lessons, total_lessons), Rat(100, 1)))

LearningProgress(completed_lessons, total_lessons) ==
    /\ op' = "learning_progress"
    /\ args' = [completed_lessons |-> completed_lessons,
                total_lessons |-> total_lessons]
    /\ result' = CalculateLearningProgress(completed_lessons, total_lessons)
    /\ UNCHANGED <<foundry_state, interactions, progress_data, effectiveness_cache,
                   data_lake_saved, tasks>>

\* The FoundryLocalManager object of the SDK.
SdkManager == <<"FoundryLocalManager">>

\* A FoundryManager: its test_mode flag and its _manager, None or the SDK's
\* manager object.
FoundryManager(model_alias, test_mode, manager) ==
    [model_alias |-> model_alias, test_mode |-> test_mode,
     _manager |-> manager]

\* Mutant: the health check is made outside the try block.
IsAvailableUnguarded(self, health) ==
    IF self.test_mode THEN Returned(TRUE)
    ELSE IF self._manager = None THEN Returned(FALSE)
    ELSE IF health = "ok" THEN Returned(TRUE)
    ELSE Raised(health)

\* FoundryManager.is_available.  health is what
\* self._manager.get_model_info(self.model_alias) does: "ok" when it
\* returns, else the name of the Exception it raises.
IsAvailable(self, health) ==
    IF self.test_mode THEN Returned(TRUE)
    ELSE IF self._manager = None THEN Returned(FALSE)
    ELSE IF health = "ok" THEN Returned(TRUE)
    ELSE Returned(FALSE)

FoundryIsAvailable(self, health) ==
    /\ op' = "is_available"
    /\ args' = [self |-> self, health |-> health]
    /\ result' = IsAvailable(self, health)
    /\ UNCHANGED <<foundry_state, interactions, progress_data, effectiveness_cache,
                   data_lake_saved, tasks>>

---------------------------------------------------------------------------
(* The FoundryLocal wrappers: FoundryManager.get_model_info and            *)
(* SemanticKernelFoundryService                                            *)
(* (src/spike/FoundryLocal/src/semantic_kernel_service.py).                *)

\* An exception: its class and str(e).
Error(type, message) == [type |-> type, message |-> message]

\* A call made on a collaborator, with the argument the model keeps.
Call(name, arg) == [name |-> name, arg |-> arg]

\* The model-info object the SDK holds for an alias.
ModelInfo(model_alias) == [id |-> model_alias]

\* The exception a failing SDK call raises; sdk names its class.
SdkError(sdk) == Error(sdk, "request to the local service failed")

\* Mutant: get_model_info lets the SDK's exception through.
GetModelInfoUnwrapped(self, sdk) ==
    IF self._manager = None
    THEN Raised(Error("FoundryManagerError",
                      "Failed to get model info: " \o "Manager not initialized"))
    ELSE IF sdk = "ok" THEN Returned(ModelInfo(self.model_alias))
    ELSE Raised(SdkError(sdk))

\* FoundryManager.get_model_info.  sdk is what
\* self._manager.get_model_info(self.model_alias) does: "ok" when it
\* returns, else the name of the Exception it raises.  The
\* FoundryManagerError of line 107 is raised inside the try block, so the
\* handler of lines 110-112 wraps it as well.
GetModelInfo(self, sdk) ==
    IF self._manager = None
    THEN Raised(Error("FoundryManagerError",
                      "Failed to get model info: " \o "Manager not initialized"))
    ELSE IF sdk = "ok" THEN Returned(ModelInfo(self.model_alias))
    ELSE Raised(Error("FoundryManagerError",
                      "Failed to get model info: " \o SdkError(sdk).message))

FoundryGetModelInfo(self, sdk) ==
    /\ op' = "get_model_info"
    /\ args' = [self |-> self, sdk |-> sdk]
    /\ result' = GetModelInfo(self, sdk)
    /\ calls' = IF self._manager = None THEN <<>>
                ELSE <<Call("sdk.get_model_info", self.model_alias)>>
    /\ UNCHANGED <<interactions, progress_data, effectiveness_cache,
                   data_lake_saved, tasks, service, chat_history, stream>>

\* FoundryManager.endpoint and FoundryManager.api_key.
Endpoint(self) ==
    IF self.test_mode THEN Returned("http://localhost:8080/v1")
    ELSE IF self._manager = None
    THEN Raised(Error("FoundryManagerError", "Manager not initialized"))
    ELSE Returned("self._manager.endpoint")
ApiKey(self) ==
    IF self.test_mode THEN Returned("test-api-key")
    ELSE IF self._manager = None
    THEN Raised(Error("FoundryManagerError", "Manager not initialized"))
    ELSE Returned("self._manager.api_key")

\* The exceptions of the service.
SemanticKernelError(message) == Error("SemanticKernelError", message)

\* _create_kernel: the kernel it returns or the exception that escapes it,
\* and the calls it made.  sdk is what the SDK's get_model_info does and
\* connector what the OpenAIChatCompletion constructor does ("ok" or the
\* name of the Exception raised).  The keyword arguments of line 79-84 are
\* evaluated in order: endpoint, api_key, model_info.id.
CreateKernel(foundry_manager, sdk, connector) ==
    LET model_info == GetModelInfo(foundry_manager, sdk)
        base_url == Endpoint(foundry_manager)
        api_key == ApiKey(foundry_manager)
        c1 == <<Call("Kernel", None),
                Call("get_model_info", foundry_manager.model_alias)>>
        c2 == Append(c1, Call("endpoint", None))
        c3 == Append(c2, Call("api_key", None))
        c4 == Append(c3, Call("OpenAIChatCompletion", "foundry-local"))
        c5 == Append(c4, Call("add_service", "foundry-local"))
    IN  IF model_info.kind = "raised" THEN [result |-> model_info, calls |-> c1]
        ELSE IF base_url.kind = "raised" THEN [result |-> base_url, calls |-> c2]
        ELSE IF api_key.kind = "raised" THEN [result |-> api_key, calls |-> c3]
        ELSE IF connector # "ok"
        THEN [result |-> Raised(Error(connector, "connector failed")),
              calls |-> c4]
        ELSE [result |-> Returned([services |->
                           <<[service_id |-> "foundry-local",
                              base_url |-> base_url.value,
                              api_key |-> api_key.value,
                              ai_model_id |-> model_info.value.id]>>]),
              calls |-> c5]

\* Mutant: the kernel is created before the availability check.
ServiceInitKernelFirst(foundry_manager, kernel_installed, health, sdk, connector) ==
    LET kernel == CreateKernel(foundry_manager, sdk, connector)
        checked == Append(kernel.calls, Call("is_available", None))
    IN  IF ~kernel_installed
        THEN [result |-> Raised(SemanticKernelError(
                  "semantic-kernel not installed. Please install with: pip install semantic-kernel")),
              calls |-> <<>>, service |-> <<>>]
        ELSE IF kernel.result.kind = "raised"
        THEN [result |-> kernel.result, calls |-> kernel.calls,
              service |-> ("foundry_manager" :> foundry_manager)]
        ELSE IF ~IsAvailable(foundry_manager, health).value
        THEN [result |-> Raised(SemanticKernelError("Foundry Local is not available")),
              calls |-> checked,
              service |-> ("foundry_manager" :> foundry_manager)
                              @@ ("kernel" :> kernel.result.value)]
        ELSE [result |-> Returned("SemanticKernelFoundryService"),
              calls |-> checked,
              service |-> [foundry_manager |-> foundry_manager,
                           kernel |-> kernel.result.value,
                           _chat_completion_service |-> None]]

\* SemanticKernelFoundryService.__init__: what the constructor call does
\* (the service, or the exception raised), the calls it made and the
\* attributes it had set on self when it ended.  kernel_installed is
\* "Kernel is not None"; health is what the SDK's get_model_info does
\* inside is_available.
ServiceInit(foundry_manager, kernel_installed, health, sdk, connector) ==
    LET checked == <<Call("is_available", None)>>
        kernel == CreateKernel(foundry_manager, sdk, connector)
    IN  IF ~kernel_installed
        THEN [result |-> Raised(SemanticKernelError(
                  "semantic-kernel not installed. Please install with: pip install semantic-kernel")),
              calls |-> <<>>, service |-> <<>>]
        ELSE IF ~IsAvailable(foundry_manager, health).value
        THEN [result |-> Raised(SemanticKernelError("Foundry Local is not available")),
              calls |-> checked, service |-> <<>>]
        ELSE IF kernel.result.kind = "raised"
        THEN [result |-> kernel.result, calls |-> checked \o kernel.calls,
              service |-> ("foundry_manager" :> foundry_manager)]
        ELSE [result |-> Returned("SemanticKernelFoundryService"),
              calls |-> checked \o kernel.calls,
              service |-> [foundry_manager |-> foundry_manager,
                           kernel |-> kernel.result.value,
                           _chat_completion_service |-> None]]

CreateService(foundry_manager, kernel_installed, health, sdk, connector) ==
    LET init == ServiceInit(foundry_manager, kernel_installed, health, sdk,
                            connector)
    IN  /\ op' = "create_service"
        /\ args' = [foundry_manager |-> foundry_manager,
                    kernel_installed |-> kernel_installed,
                    health |-> health, sdk |-> sdk, connector |-> connector]
        /\ result' = init.result
        /\ calls' = init.calls
        /\ service' = init.service
        /\ UNCHANGED <<interactions, progress_data, effectiveness_cache,
                       data_lake_saved, tasks, chat_history, stream>>

\* Optional[str]: None is <<>>, the string x is <<x>>.
Some(x) == <<x>>

\* Python truthiness of an Optional[str].
Truthy(content) == content # None /\ content # Some("")

\* A chat message; the response of the model is one, with the content the
\* model gave it.
Message(role, content) == [role |-> role, content |-> content]

\* The OpenAIPromptExecutionSettings of lines 167-171.
ExecutionSettings(enable_function_calling) ==
    [function_choice_behavior |->
        IF enable_function_calling THEN Some("auto") ELSE None]

\* What the collaborators of one chat call do:
\*   lookup    kernel.get_service: "ok" or the Exception raised;
\*   building  chat_history.add_user_message: "ok" or the Exception raised;
\*   model     the awaited model call: Returned(response) or Raised(name);
\*   adding    chat_history.add_message(response): "ok" or the Exception
\*             raised.
Collaborators(lookup, building, model, adding) ==
    [lookup |-> lookup, building |-> building, model |-> model,
     adding |-> adding]

\* The SemanticKernelError of lines 189-191 for the exception named e.
ChatFailed(e) == Raised(SemanticKernelError("Chat completion failed: " \o e))

\* Mutant: the content of the response is returned as it is.
ChatCompletionRawContent(history, message, enable_function_calling, does) ==
    LET with_user == Append(history, Message("user", Some(message)))
        asked == <<Call("get_service", None),
                   Call("get_chat_message_content",
                        [chat_history |-> with_user,
                         settings |-> ExecutionSettings(enable_function_calling)])>>
    IN  IF does.lookup # "ok"
        THEN [result |-> ChatFailed(does.lookup),
              calls |-> <<Call("get_service", None)>>, chat_history |-> history]
        ELSE IF does.building # "ok"
        THEN [result |-> ChatFailed(does.building),
              calls |-> <<Call("get_service", None)>>, chat_history |-> history]
        ELSE IF does.model.kind = "raised"
        THEN [result |-> ChatFailed(does.model.value),
              calls |-> asked, chat_history |-> with_user]
        ELSE IF does.adding \in {"TypeError", "AttributeError"}
        THEN [result |-> Returned(does.model.value.content),
              calls |-> asked, chat_history |-> with_user]
        ELSE IF does.adding # "ok"
        THEN [result |-> ChatFailed(does.adding),
              calls |-> asked, chat_history |-> with_user]
        ELSE [result |-> Returned(does.model.value.content),
              calls |-> asked,
              chat_history |-> Append(with_user, does.model.value)]

\* Mutant: the user message is appended only after the model has answered.
ChatCompletionAppendsLate(history, message, enable_function_calling, does) ==
    LET with_user == Append(history, Message("user", Some(message)))
        asked == <<Call("get_service", None),
                   Call("get_chat_message_content",
                        [chat_history |-> history,
                         settings |-> ExecutionSettings(enable_function_calling)])>>
        response == does.model.value
        content == IF Truthy(response.content) THEN response.content[1] ELSE ""
    IN  IF does.lookup # "ok"
        THEN [result |-> ChatFailed(does.lookup),
              calls |-> <<Call("get_service", None)>>, chat_history |-> history]
        ELSE IF does.building # "ok"
        THEN [result |-> ChatFailed(does.building),
              calls |-> <<Call("get_service", None)>>, chat_history |-> history]
        ELSE IF does.model.kind = "raised"
        THEN [result |-> ChatFailed(does.model.value),
              calls |-> asked, chat_history |-> history]
        ELSE IF does.adding \in {"TypeError", "AttributeError"}
        THEN [result |-> Returned(content),
              calls |-> asked, chat_history |-> with_user]
        ELSE IF does.adding # "ok"
        THEN [result |-> ChatFailed(does.adding),
              calls |-> asked, chat_history |-> with_user]
        ELSE [result |-> Returned(content),
              calls |-> asked, chat_history |-> Append(with_user, response)]

\* chat_completion on the ChatHistory history (the caller's, or the new one
\* of line 161): what it returns or raises, the calls it made and the
\* history afterwards.  An exception of add_user_message leaves the history
\* as it was.
ChatCompletionRun(history, message, enable_function_calling, does) ==
    LET with_user == Append(history, Message("user", Some(message)))
        asked == <<Call("get_service", None),
                   Call("get_chat_message_content",
                        [chat_history |-> with_user,
                         settings |-> ExecutionSettings(enable_function_calling)])>>
        response == does.model.value
        content == IF Truthy(response.content) THEN response.content[1] ELSE ""
    IN  IF does.lookup # "ok"
        THEN [result |-> ChatFailed(does.lookup),
              calls |-> <<Call("get_service", None)>>, chat_history |-> history]
        ELSE IF does.building # "ok"
        THEN [result |-> ChatFailed(does.building),
              calls |-> <<Call("get_service", None)>>, chat_history |-> history]
        ELSE IF does.model.kind = "raised"
        THEN [result |-> ChatFailed(does.model.value),
              calls |-> asked, chat_history |-> with_user]
        ELSE IF does.adding \in {"TypeError", "AttributeError"}
        THEN [result |-> Returned(content),
              calls |-> asked, chat_history |-> with_user]
        ELSE IF does.adding # "ok"
        THEN [result |-> ChatFailed(does.adding),
              calls |-> asked, chat_history |-> with_user]
        ELSE [result |-> Returned(content),
              calls |-> asked, chat_history |-> Append(with_user, response)]

\* A chat_completion call on the constructed service.  supplied says
\* whether the caller passes its ChatHistory or leaves chat_history=None.
ChatCompletion(message, supplied, enable_function_calling, does, max) ==
    LET history == IF supplied THEN chat_history ELSE <<>>
        run == ChatCompletionRun(history, message, enable_function_calling,
                                 does)
    IN  /\ "kernel" \in DOMAIN service
        /\ Len(chat_history) + 2 <= max
        /\ op' = "chat_completion"
        /\ args' = [message |-> message, supplied |-> supplied,
                    chat_history |-> history, does |-> does]
        /\ result' = run.result
        /\ calls' = run.calls
        /\ chat_history' = IF supplied THEN run.chat_history ELSE chat_history
        /\ UNCHANGED <<interactions, progress_data, effectiveness_cache,
                       data_lake_saved, tasks, service, stream>>

---------------------------------------------------------------------------
(* streaming_chat_completion is an async generator: calling it creates the *)
(* generator and runs nothing; each __anext__ of the consumer runs the     *)
(* body up to the next yield, to its end, or to the exception that leaves  *)
(* it.  The stream underneath produces the chunks stream.chunks and then   *)
(* does stream.ending: "end", or the name of the Exception it raises.      *)

\* Mutant: only chunks without content are passed over.
NextYieldNotNone(chunks, position) ==
    LET later == {k \in DOMAIN chunks : k > position /\ chunks[k] # None}
    IN  IF later = {} THEN 0
        ELSE CHOOSE k \in later : \A j \in later : k <= j

\* The loop of lines 232-238 from the chunk after position: the index of
\* the next chunk whose content is truthy, 0 when there is none.
NextYield(chunks, position) ==
    LET later == {k \in DOMAIN chunks : k > position /\ Truthy(chunks[k])}
    IN  IF later = {} THEN 0
        ELSE CHOOSE k \in later : \A j \in later : k <= j

\* The SemanticKernelError of lines 240-242 for the exception named e.
StreamingFailed(e) ==
    Raised(SemanticKernelError("Streaming chat completion failed: " \o e))

\* The call streaming_chat_completion(message, chat_history): the generator
\* object, not yet started.
StreamingChatCompletion(message, supplied, lookup, chunks, ending) ==
    /\ "kernel" \in DOMAIN service
    /\ op' = "streaming_chat_completion"
    /\ args' = [message |-> message, supplied |-> supplied]
    /\ result' = Returned("async_generator")
    /\ calls' = <<>>
    /\ stream' = [message |-> message, supplied |-> supplied,
                  lookup |-> lookup, chunks |-> chunks, ending |-> ending,
                  position |-> 0, yielded |-> <<>>, status |-> "created"]
    /\ UNCHANGED <<interactions, progress_data, effectiveness_cache,
                   data_lake_saved, tasks, service, chat_history>>

\* __anext__ on the generator: lines 214-231 when it has not started, then
\* the loop of lines 232-238 up to the next yield.
StreamNext(max) ==
    LET starting == stream.status = "created"
        k == NextYield(stream.chunks, stream.position)
        appends == starting /\ stream.lookup = "ok" /\ stream.supplied
    IN  /\ op \in {"streaming_chat_completion", "anext"}
        /\ stream.status \in {"created", "suspended"}
        /\ appends => Len(chat_history) < max
        /\ op' = "anext"
        /\ calls' = IF ~starting THEN <<>>
                    ELSE IF stream.lookup # "ok"
                    THEN <<Call("get_service", None)>>
                    ELSE <<Call("get_service", None),
                           Call("get_streaming_chat_message_content", None)>>
        /\ chat_history' =
              IF appends
              THEN Append(chat_history, Message("user", Some(stream.message)))
              ELSE chat_history
        /\ IF starting /\ stream.lookup # "ok"
           THEN /\ result' = StreamingFailed(stream.lookup)
                /\ stream' = [stream EXCEPT !.status = "failed"]
           ELSE IF k # 0
           THEN /\ result' = Returned(stream.chunks[k][1])
                /\ stream' = [stream EXCEPT
                                 !.position = k,
                                 !.yielded = Append(@, stream.chunks[k][1]),
                                 !.status = "suspended"]
           ELSE IF stream.ending = "end"
           THEN /\ result' = Raised(Error("StopAsyncIteration", ""))
                /\ stream' = [stream EXCEPT !.position = Len(stream.chunks),
                                            !.status = "exhausted"]
           ELSE /\ result' = StreamingFailed(stream.ending)
                /\ stream' = [stream EXCEPT !.position = Len(stream.chunks),
                                            !.status = "failed"]
        /\ UNCHANGED <<interactions, progress_data, effectiveness_cache,
                       data_lake_saved, tasks, service, args>>

---------------------------------------------------------------------------
(* estimate_mastery_time (src/src/sayzhong/core/learning_effectiveness.py). *)
(* A timedelta is its exact number of seconds; the rounding of timedelta   *)
(* to microseconds is not modelled.                                        *)

\* interactions[-window_size:] with window_size = min(10, len(interactions)).
RecentInteractions(s) ==
    LET window_size == Min2(10, Len(s))
    IN  SubSeq(s, Len(s) - window_size + 1, Len(s))

\* estimate_mastery_time.  The division of line 402 is a float division:
\* it raises ZeroDivisionError when no time has elapsed.
EstimateMasteryTime(s, mastery_threshold) ==
    IF s = <<>> THEN Returned(None)
    ELSE
      LET recent_interactions == RecentInteractions(s)
          current_accuracy == Rat(CountCorrect(recent_interactions),
                                  Len(recent_interactions))
          time_elapsed == Rat(3600 * (s[Len(s)].timestamp - s[1].timestamp), 1)
          improvement_rate == RDiv(current_accuracy, time_elapsed)
          remaining_improvement == RSub(mastery_threshold, current_accuracy)
      IN  IF RLe(mastery_threshold, current_accuracy) THEN Returned(Zero)
          ELSE IF Len(s) > 1
          THEN IF time_elapsed = Zero THEN Raised("ZeroDivisionError")
               ELSE IF RLt(Zero, improvement_rate)
               THEN Returned(RDiv(remaining_improvement, improvement_rate))
               ELSE Returned(None)
          ELSE Returned(None)

EstimateMastery(s, mastery_threshold) ==
    /\ op' = "estimate_mastery_time"
    /\ args' = [interactions |-> s, mastery_threshold |-> mastery_threshold]
    /\ result' = EstimateMasteryTime(s, mastery_threshold)
    /\ UNCHANGED <<foundry_state, interactions, progress_data,
                   effectiveness_cache, data_lake_saved, tasks>>

---------------------------------------------------------------------------
(* Input domains.                                                          *)

UserIds == {"learner_a"}
Timeframes == {30}
Contents == {"c1", "c2"}

\* Records for the scoring operations: well-formed ones, and ones that
\* break the data-model invariants (the dataclass accepts them).
\* <<is_correct, latency, hints, attempts, confidence, difficulty, content,
\*   timestamp>>
ScoredProfiles ==
    { <<TRUE, 0, 0, 1, One, "advanced", "c1", 1>>,
      <<TRUE, 15, 1, 1, None, "elementary", "c1", 0>>,
      <<FALSE, 15, 1, 2, Half, "intermediate", "c2", 1>>,
      <<TRUE, 45, 4, 3, Zero, "beginner", "c2", 0>>,
      <<FALSE, 45, 4, 3, None, "beginner", "c2", 0>>,
      <<TRUE, -30, 0, 1, None, "beginner", "c1", 0>>,   \* negative latency
      <<TRUE, 0, -3, 1, None, "beginner", "c1", 0>>,    \* negative hints
      <<TRUE, 0, 0, -1, None, "beginner", "c1", 0>> }   \* negative attempts

ScoredInteractions ==
    { Interaction("learner_a", p[8], p[7], p[6], p[1], p[2], p[5], p[3], p[4]) :
        p \in ScoredProfiles }

ScoredSummaries ==
    { <<>>,
      [difficulty_progression |-> Rat(5, 1), mastery_rate |-> One,
       learning_velocity |-> Rat(10, 1)],
      [mastery_rate |-> Rat(-3, 1)] }

\* A record in which only the fields read by retention, trend and pattern
\* identification vary.
Plain(ts, content, level, correct) ==
    Interaction("learner_a", ts, content, level, correct, 0, None, 0, 1)

\* The caller's list is oldest first (timestamps 0, 1, 2, ...) or newest
\* first (Horizon, Horizon - 1, ...): the timestamp of the next element.
Horizon == 9

NextTimestamps ==
    IF interactions = <<>> THEN {0, Horizon}
    ELSE IF interactions[1].timestamp = 0 THEN {Len(interactions)}
    ELSE {Horizon - Len(interactions)}

\* Hours of the clock for pattern identification: 01:00 and 00:00 of day 0,
\* 00:00 of day 1.
PatternTimes == {0, 1, 24}

---------------------------------------------------------------------------
(* Spec: the whole analyzer on short mixed sequences.                      *)

MaxScored == 3

Init ==
    /\ interactions = <<>>
    /\ progress_data \in ScoredSummaries
    /\ op = "idle"
    /\ result = NoResult
    /\ effectiveness_cache = <<>>
    /\ data_lake_saved = <<>>
    /\ args = None
    /\ tasks = <<>>
    /\ calls = <<>>
    /\ service = <<>>
    /\ chat_history = <<>>
    /\ stream = None

Next ==
    \/ \E i \in ScoredInteractions : LogInteraction(i, MaxScored)
    \/ ImmediateEffectiveness
    \/ RetentionEffectiveness
    \/ RealTimeEffectiveness
    \/ \E u \in UserIds, d \in Timeframes : AnalyzeUserEffectiveness(u, d)

Spec == Init /\ [][Next]_vars

(* SpecScoring: the three interaction-scoring operations alone.            *)

InitScoring ==
    /\ interactions = <<>>
    /\ progress_data = <<>>
    /\ op = "idle"
    /\ result = NoResult
    /\ effectiveness_cache = <<>>
    /\ data_lake_saved = <<>>
    /\ args = None
    /\ tasks = <<>>
    /\ calls = <<>>
    /\ service = <<>>
    /\ chat_history = <<>>
    /\ stream = None

NextScoring ==
    \/ \E i \in ScoredInteractions : LogInteraction(i, MaxScored)
    \/ ImmediateEffectiveness
    \/ RetentionEffectiveness
    \/ RealTimeEffectiveness

SpecScoring == InitScoring /\ [][NextScoring]_vars

(* SpecRetention: retention over up to MaxRetained interactions of two     *)
(* contents.                                                               *)

MaxRetained == 6

NextRetention ==
    \/ \E ts \in NextTimestamps, c \in Contents, ok \in BOOLEAN :
          LogInteraction(Plain(ts, c, "beginner", ok), MaxRetained)
    \/ RetentionEffectiveness

SpecRetention == InitScoring /\ [][NextRetention]_vars

(* SpecTrend: the difficulty trend over every sequence of levels.          *)

MaxTrend == 5

NextTrend ==
    \/ \E ts \in NextTimestamps, k \in 1..5 :
          LogInteraction(Plain(ts, "c1", LearningDifficulty[k], TRUE), MaxTrend)
    \/ DifficultyTrend

SpecTrend == InitScoring /\ [][NextTrend]_vars

(* SpecPattern: pattern identification over two hours of the day.          *)

MaxTimed == 6

NextPattern ==
    \/ \E ts \in PatternTimes, ok \in BOOLEAN :
          LogInteraction(Plain(ts, "c1", "beginner", ok), MaxTimed)
    \/ LearningPatternsAI
    \/ LearningPatterns

SpecPattern == InitScoring /\ [][NextPattern]_vars

(* SpecProgression: progression effectiveness over progress summaries.     *)
(* A summary is a dict; each of the three keys may be missing, and other   *)
(* keys may be present.                                                    *)

MaxProgression == 6          \* difficulty_progression in 0 .. MaxProgression
MaxMasteryHalves == 3        \* mastery_rate in -1, -1/2, .. MaxMasteryHalves/2
MaxVelocitySteps == 3        \* learning_velocity in -5, 0, .. 5*MaxVelocitySteps

ProgressKeys ==
    {"difficulty_progression", "mastery_rate", "learning_velocity",
     "words_learned"}

ProgressValues(key) ==
    CASE key = "difficulty_progression" ->
             {Rat(k, 1) : k \in 0..MaxProgression}
      [] key = "mastery_rate" ->
             {Rat(k, 2) : k \in -2..MaxMasteryHalves}
      [] key = "learning_velocity" ->
             {Rat(5 * k, 1) : k \in -1..MaxVelocitySteps}
      [] OTHER -> {Rat(12, 1)}

ProgressSummaries ==
    UNION { { f \in [K -> UNION {ProgressValues(k) : k \in K}] :
                \A k \in K : f[k] \in ProgressValues(k) } :
            K \in SUBSET ProgressKeys }

InitProgression ==
    /\ interactions = <<>>
    /\ progress_data \in ProgressSummaries
    /\ op = "idle"
    /\ result = NoResult
    /\ effectiveness_cache = <<>>
    /\ data_lake_saved = <<>>
    /\ args = None
    /\ tasks = <<>>
    /\ calls = <<>>
    /\ service = <<>>
    /\ chat_history = <<>>
    /\ stream = None

NextProgression == ProgressionEffectiveness

SpecProgression == InitProgression /\ [][NextProgression]_vars

---------------------------------------------------------------------------
(* Properties.                                                             *)

ScoringOps == {"immediate", "retention", "real_time"}

\* The interactions in timestamp order, read off the timestamps themselves
\* (they are pairwise distinct wherever this is used).
TimeRank(k) ==
    Cardinality({j \in DOMAIN interactions :
                    interactions[j].timestamp < interactions[k].timestamp}) + 1

InTimeOrder ==
    [r \in DOMAIN interactions |->
        interactions[CHOOSE k \in DOMAIN interactions : TimeRank(k) = r]]

LevelsInTimeOrder ==
    [r \in DOMAIN interactions |->
        difficulty_values[InTimeOrder[r].difficulty_level]]

StrictlyIncreasing(xs) == \A k \in 1..(Len(xs) - 1) : xs[k] < xs[k + 1]
StrictlyDecreasing(xs) == \A k \in 1..(Len(xs) - 1) : xs[k] > xs[k + 1]
EqualSteps(xs) ==
    \A k \in 1..(Len(xs) - 2) : xs[k + 1] - xs[k] = xs[k + 2] - xs[k + 1]

\* C1 (as claimed): for every interaction sequence that satisfies the
\* data-model invariants, the immediate, retention and real-time scores
\* and the 0.4/0.4/0.2 composite of an analysis each lie in [0,1].
C1_ScoresInUnit ==
    (AllValid(interactions) /\ result.kind = "returned") =>
        /\ op = "immediate" => InUnit(result.value)
        /\ op = "retention" => InUnit(result.value)
        /\ op = "real_time" => SInUnit(result.value)
        /\ op = "analyze" => InUnit(result.value.overall_effectiveness)

\* The part of C1 that the code does satisfy: the three scores computed from
\* the interactions alone lie in [0,1].
InteractionScoresInUnit ==
    (AllValid(interactions) /\ result.kind = "returned") =>
        /\ op = "immediate" => InUnit(result.value)
        /\ op = "retention" => InUnit(result.value)
        /\ op = "real_time" => SInUnit(result.value)
        /\ op = "analyze" =>
              /\ InUnit(result.value.immediate_effectiveness)
              /\ InUnit(result.value.retention_effectiveness)

\* C2 (as claimed): progression effectiveness lies in [0,1] for every
\* progress summary, whatever numbers its fields hold.
C2_ProgressionInUnit ==
    op = "progression" => InUnit(result.value)

\* C3 (as claimed): when some record has a negative latency, hint count or
\* attempt count, the immediate, retention and real-time operations signal
\* an error instead of returning a score.
C3_RejectsNegativeInput ==
    (/\ op \in ScoringOps
     /\ \E k \in DOMAIN interactions : HasNegativeField(interactions[k]))
        => result.kind = "raised"

\* C4 (as claimed): for 3 or more interactions the difficulty trend is
\* exactly 1.0 when the levels strictly increase in timestamp order and
\* exactly 0.0 when they strictly decrease, whatever the step sizes.
C4_MonotoneIsExtreme ==
    (op = "trend" /\ Len(interactions) >= 3) =>
        /\ StrictlyIncreasing(LevelsInTimeOrder) =>
              result.value = FromRat(One)
        /\ StrictlyDecreasing(LevelsInTimeOrder) =>
              result.value = FromRat(Zero)

\* C4 (amended): for 3 or more interactions whose levels strictly increase
\* (decrease) in timestamp order, the difficulty trend is exactly 1.0 (0.0)
\* when all level steps are equal, and lies strictly between 0.5 and 1.0
\* (0.0 and 0.5) when they are not.
C4_EqualStepsIsExtreme ==
    (op = "trend" /\ Len(interactions) >= 3) =>
        LET levels == LevelsInTimeOrder
            trend == result.value
        IN  /\ (StrictlyIncreasing(levels) /\ EqualSteps(levels)) =>
                  trend = FromRat(One)
            /\ (StrictlyDecreasing(levels) /\ EqualSteps(levels)) =>
                  trend = FromRat(Zero)
            /\ (StrictlyIncreasing(levels) /\ ~EqualSteps(levels)) =>
                  /\ ~SLeRat(trend, Half)
                  /\ ~RatLeS(One, trend)
            /\ (StrictlyDecreasing(levels) /\ ~EqualSteps(levels)) =>
                  /\ ~RatLeS(Half, trend)
                  /\ ~SLeRat(trend, Zero)

\* C4 witness: a newest-first list whose levels strictly increase in equal
\* steps over time has trend exactly 1.0.
C4_Witness ==
    /\ op = "trend"
    /\ Len(interactions) >= 3
    /\ interactions[1].timestamp > interactions[2].timestamp
    /\ StrictlyIncreasing(LevelsInTimeOrder)
    /\ EqualSteps(LevelsInTimeOrder)
    /\ result.value = FromRat(One)

\* C5: on the empty sequence immediate effectiveness returns exactly 0.0 and
\* the real-time score exactly 0.5.
C5_EmptyDefaults ==
    interactions = <<>> =>
        /\ op = "immediate" => result = Returned(Zero)
        /\ op = "real_time" => result = Returned(FromRat(Half))

\* C5 witness: the real-time score was computed on the empty sequence.
C5_Witness ==
    /\ interactions = <<>>
    /\ op = "real_time"
    /\ result = Returned(FromRat(Half))

\* The interactions of one hour of the day, and whether the hour meets the
\* sample-size floor and the accuracy threshold.
AtHour(h) ==
    {k \in DOMAIN interactions : interactions[k].timestamp % 24 = h}

CorrectAmong(ks) == Cardinality({k \in ks : interactions[k].is_correct})

Qualifies(h) ==
    /\ Cardinality(AtHour(h)) >= 5
    /\ 5 * CorrectAmong(AtHour(h)) > 4 * Cardinality(AtHour(h))

TimingPatterns(pats) ==
    {k \in DOMAIN pats : pats[k].pattern_type = "optimal_timing"}

OptimalHours(pats) ==
    UNION { {pats[k].conditions.optimal_hours[n] :
                n \in DOMAIN pats[k].conditions.optimal_hours} :
            k \in TimingPatterns(pats) }

\* C6: in the pattern step of analyze_user_effectiveness, an hour with
\* exactly 5 interactions, all correct, yields exactly one "optimal_timing"
\* pattern whose optimal_hours contains the hour; an hour with only 4
\* interactions, all correct, is never in optimal_hours; and when no hour
\* qualifies no pattern is emitted.
C6_TimingPattern ==
    op = "patterns_ai" =>
        LET pats == result.value
        IN  /\ \A h \in 0..23 :
                  (Cardinality(AtHour(h)) = 5 /\ CorrectAmong(AtHour(h)) = 5)
                      => /\ Cardinality(TimingPatterns(pats)) = 1
                         /\ h \in OptimalHours(pats)
            /\ \A h \in 0..23 :
                  (Cardinality(AtHour(h)) = 4 /\ CorrectAmong(AtHour(h)) = 4)
                      => h \notin OptimalHours(pats)
            /\ (\A h \in 0..23 : ~Qualifies(h)) => pats = <<>>

\* C6 witness: five correct answers in hour 0, spread over two days, gave one
\* pattern.
C6_Witness ==
    /\ op = "patterns_ai"
    /\ Cardinality(AtHour(0)) = 5
    /\ CorrectAmong(AtHour(0)) = 5
    /\ \E k \in AtHour(0) : interactions[k].timestamp = 24
    /\ \E k \in AtHour(0) : interactions[k].timestamp = 0
    /\ Len(result.value) = 1

\* C7 (as claimed): the public identify_learning_patterns returns an
\* "optimal_timing" pattern for every hour with at least 5 observations and
\* accuracy above 0.8, as the pattern step of analyze_user_effectiveness does.
C7_PublicTimingPattern ==
    op = "patterns" =>
        \A h \in 0..23 : Qualifies(h) => h \in OptimalHours(result.value)

\* The retention ratio of one content, read off the timestamps (pairwise
\* distinct in SpecRetention).
TimesOf(c) ==
    {interactions[k].timestamp :
        k \in {j \in DOMAIN interactions : interactions[j].content_id = c}}

CorrectAtTime(t) ==
    \E k \in DOMAIN interactions :
        interactions[k].timestamp = t /\ interactions[k].is_correct

FractionCorrect(ts) ==
    Rat(Cardinality({t \in ts : CorrectAtTime(t)}), Cardinality(ts))

EarliestThree(c) ==
    {t \in TimesOf(c) : Cardinality({u \in TimesOf(c) : u < t}) < 3}

LatestThree(c) ==
    {t \in TimesOf(c) : Cardinality({u \in TimesOf(c) : u > t}) < 3}

ExpectedRatio(c) ==
    LET initial == FractionCorrect(EarliestThree(c))
        later == FractionCorrect(LatestThree(c))
    IN  IF RLt(Zero, initial) THEN RMin(One, RDiv(later, initial)) ELSE Half

Repeated == {c \in Contents : Cardinality(TimesOf(c)) >= 2}

RECURSIVE SumOfRatios(_)
SumOfRatios(cs) ==
    IF cs = {} THEN Zero
    ELSE LET c == CHOOSE x \in cs : TRUE
         IN  RAdd(ExpectedRatio(c), SumOfRatios(cs \ {c}))

CorrectInTimeOrder == [r \in DOMAIN interactions |-> InTimeOrder[r].is_correct]

\* C8: retention effectiveness is the arithmetic mean, over the contents
\* with at least 2 interactions, of min(1, later/initial) (0.5 when
\* initial = 0), initial and later being the fractions correct among the
\* first 3 and the last 3 interactions of the content in timestamp order;
\* one content answered correct, correct, correct, wrong, wrong, wrong
\* yields 0.0.
C8_RetentionRatio ==
    op = "retention" =>
        /\ Repeated # {} =>
              result.value =
                  RDiv(SumOfRatios(Repeated), Rat(Cardinality(Repeated), 1))
        /\ (/\ Len(interactions) = 6
            /\ \A k \in DOMAIN interactions : interactions[k].content_id = "c1"
            /\ CorrectInTimeOrder = <<TRUE, TRUE, TRUE, FALSE, FALSE, FALSE>>)
              => result.value = Zero

\* C8 witness: a newest-first list of one content, answered correct three
\* times and then wrong three times, scored 0.0.
C8_Witness ==
    /\ op = "retention"
    /\ Len(interactions) = 6
    /\ \A k \in DOMAIN interactions : interactions[k].content_id = "c1"
    /\ interactions[1].timestamp > interactions[2].timestamp
    /\ CorrectInTimeOrder = <<TRUE, TRUE, TRUE, FALSE, FALSE, FALSE>>
    /\ result.value = Zero

\* The interactions without those whose content occurs exactly once.
WithoutSingles ==
    SelectSeq(interactions, LAMBDA i : Cardinality(TimesOf(i.content_id)) # 1)

\* C9: a content with exactly 1 interaction contributes nothing to retention
\* effectiveness (the result is that of the sequence without it), and when
\* no content has 2 or more interactions the result is exactly 0.5.
C9_SinglesIgnored ==
    op = "retention" =>
        /\ result.value = CalculateRetentionEffectiveness(WithoutSingles)
        /\ Repeated = {} => result.value = Half

\* C9 witness: one content occurs once, answered wrongly, beside a content
\* with several interactions whose ratio is below 1.
C9_Witness ==
    /\ op = "retention"
    /\ Cardinality(TimesOf("c1")) = 1
    /\ ~CorrectAtTime(CHOOSE t \in TimesOf("c1") : TRUE)
    /\ Cardinality(TimesOf("c2")) >= 2
    /\ RLt(result.value, One)

\* The value of a summary field, 0 when the key is missing.
Field(key) == IF key \in DOMAIN progress_data THEN progress_data[key] ELSE Zero

\* C10: for a non-empty summary progression effectiveness equals
\* 0.4*min(difficulty_progression/5, 1) + 0.4*min(mastery_rate, 1)
\* + 0.2*min(learning_velocity/10, 1); a summary whose three fields reach or
\* exceed 5, 1.0 and 10 scores exactly 1.0; the empty summary scores 0.5.
C10_ProgressionFormula ==
    op = "progression" =>
        /\ DOMAIN progress_data # {} =>
              result.value =
                  RAdd(RAdd(RMul(Rat(2, 5),
                                 RMin(RDiv(Field("difficulty_progression"),
                                           Rat(5, 1)), One)),
                            RMul(Rat(2, 5), RMin(Field("mastery_rate"), One))),
                       RMul(Rat(1, 5),
                            RMin(RDiv(Field("learning_velocity"), Rat(10, 1)),
                                 One)))
        /\ (/\ RLe(Rat(5, 1), Field("difficulty_progression"))
            /\ RLe(One, Field("mastery_rate"))
            /\ RLe(Rat(10, 1), Field("learning_velocity")))
              => result.value = One
        /\ DOMAIN progress_data = {} => result.value = Half

\* C10 witness: a summary with every field above its cap scored exactly 1.0.
C10_Witness ==
    /\ op = "progression"
    /\ RLt(Rat(5, 1), Field("difficulty_progression"))
    /\ RLt(One, Field("mastery_rate"))
    /\ RLt(Rat(10, 1), Field("learning_velocity"))
    /\ result.value = One

---------------------------------------------------------------------------
(* SpecImmediate: immediate effectiveness over latencies, hints and        *)
(* attempts.                                                               *)

MaxImmediate == 3

\* <<latency, hints, attempts>>
ImmediateProfiles ==
    { <<0, 0, 1>>, <<1, 0, 1>>, <<45, 0, 1>>,
      <<0, 4, 1>>, <<1, 0, 3>>, <<45, 4, 3>>, <<15, 1, 2>> }

ImmediateInteractions ==
    { Interaction("learner_a", 0, "c1", "beginner", ok, p[1], None, p[2], p[3]) :
        p \in ImmediateProfiles, ok \in BOOLEAN }

NextImmediate ==
    \/ \E i \in ImmediateInteractions : LogInteraction(i, MaxImmediate)
    \/ ImmediateEffectiveness

SpecImmediate == InitScoring /\ [][NextImmediate]_vars

\* The total of one numeric field over the interactions with index in ks.
RECURSIVE FieldTotal(_, _)
FieldTotal(ks, field) ==
    IF ks = {} THEN 0
    ELSE LET k == CHOOSE x \in ks : TRUE
         IN  interactions[k][field] + FieldTotal(ks \ {k}, field)

FieldAverage(field) ==
    Rat(FieldTotal(DOMAIN interactions, field), Len(interactions))

\* Every interaction is correct, took at most 1 second, used no hint and a
\* single attempt.
AllQuickAndClean ==
    \A k \in DOMAIN interactions :
        /\ interactions[k].is_correct
        /\ interactions[k].response_time_seconds \in 0..1
        /\ interactions[k].hints_used = 0
        /\ interactions[k].attempts = 1

\* 0.5*accuracy + 0.3*max(0, 1 - avg_latency/30)
\* + 0.2*max(0, 1 - avg_hints/3 - (avg_attempts - 1)/2) of the interactions.
ExpectedImmediate ==
    LET accuracy ==
            Rat(Cardinality({k \in DOMAIN interactions :
                                interactions[k].is_correct}),
                Len(interactions))
        speed ==
            RMax(Zero, RSub(One, RDiv(FieldAverage("response_time_seconds"),
                                      Rat(30, 1))))
        ease ==
            RMax(Zero,
                 RSub(RSub(One, RDiv(FieldAverage("hints_used"), Rat(3, 1))),
                      RDiv(RSub(FieldAverage("attempts"), One), Rat(2, 1))))
    IN  RAdd(RAdd(RMul(Rat(1, 2), accuracy), RMul(Rat(3, 10), speed)),
             RMul(Rat(1, 5), ease))

\* C11: immediate effectiveness is 0.5*accuracy
\* + 0.3*max(0, 1 - avg_latency/30)
\* + 0.2*max(0, 1 - avg_hints/3 - (avg_attempts - 1)/2); for a non-empty
\* sequence of all-correct interactions with latency at most 1 second, no
\* hints and a single attempt it is at least 0.99, and exactly 1.0 when
\* every latency is 0.
C11_ImmediateFormula ==
    (op = "immediate" /\ interactions # <<>>) =>
        /\ result.kind = "returned"
        /\ result.value = ExpectedImmediate
        /\ AllQuickAndClean =>
              /\ RLe(Rat(99, 100), result.value)
              /\ RLe(result.value, One)
        /\ (AllQuickAndClean
              /\ \A k \in DOMAIN interactions :
                    interactions[k].response_time_seconds = 0)
              => result.value = One

\* C11 witness: quick, clean answers with latencies 0 and 1 scored at least
\* 0.99 and below 1.0.
C11_Witness ==
    /\ op = "immediate"
    /\ Len(interactions) >= 2
    /\ AllQuickAndClean
    /\ \E k \in DOMAIN interactions : interactions[k].response_time_seconds = 0
    /\ \E k \in DOMAIN interactions : interactions[k].response_time_seconds = 1
    /\ RLe(Rat(99, 100), result.value)
    /\ RLt(result.value, One)

---------------------------------------------------------------------------
(* SpecFaults: analyze_user_effectiveness with and without failing         *)
(* collaborators.                                                          *)

MaxFaulted == 2

\* The faults after which the call returns or stores something else than
\* the analysis of the stored data.
StoppingFaults ==
    {"get_user_interactions", "calculate", "save", "track_performance"}

NextFaults ==
    \/ \E i \in ScoredInteractions : LogInteraction(i, MaxFaulted)
    \/ \E u \in UserIds, d \in Timeframes : AnalyzeUserEffectiveness(u, d)
    \/ \E u \in UserIds, d \in Timeframes, f \in StoppingFaults :
          AnalyzeUserEffectivenessFailing(u, d, f)

SpecFaults == Init /\ [][NextFaults]_vars

\* C12: every EffectivenessAnalysis returned by analyze_user_effectiveness,
\* on the normal path and on the no-data and error paths, has
\* overall_effectiveness = 0.4*immediate_effectiveness
\* + 0.4*retention_effectiveness + 0.2*progression_effectiveness.
C12_OverallIsWeightedSum ==
    op = "analyze" =>
        /\ result.kind = "returned"
        /\ result.value.overall_effectiveness =
              RAdd(RAdd(RMul(Rat(2, 5), result.value.immediate_effectiveness),
                        RMul(Rat(2, 5), result.value.retention_effectiveness)),
                   RMul(Rat(1, 5), result.value.progression_effectiveness))

\* C12 witness: an error after the analysis was cached returned the empty
\* analysis, whose scores differ from the cached ones.
C12_Witness ==
    /\ op = "analyze"
    /\ interactions # <<>>
    /\ result.value.learning_patterns = <<>>
    /\ result.value.overall_effectiveness = Half
    /\ "learner_a_30" \in DOMAIN effectiveness_cache
    /\ effectiveness_cache["learner_a_30"].overall_effectiveness # Half

---------------------------------------------------------------------------
(* SpecDegenerate: the scoring operations on short sequences with equal    *)
(* timestamps, equal difficulty levels and wrong answers.                  *)

MaxDegenerate == 3

NextDegenerate ==
    \/ \E ts \in {0, 1}, ok \in BOOLEAN,
          level \in {"beginner", "intermediate"} :
          LogInteraction(Plain(ts, "c1", level, ok), MaxDegenerate)
    \/ ImmediateEffectiveness
    \/ RetentionEffectiveness
    \/ RealTimeEffectiveness
    \/ DifficultyTrend

SpecDegenerate == InitScoring /\ [][NextDegenerate]_vars

AllLevelsEqual ==
    \A j, k \in DOMAIN interactions :
        interactions[j].difficulty_level = interactions[k].difficulty_level

\* C13: on every well-typed interaction sequence, of any length and with
\* any mix of equal difficulty levels, equal timestamps or wrong answers,
\* the immediate, retention and real-time operations (and the difficulty
\* trend) return a number instead of raising a division by zero, and the
\* difficulty trend is 0.5 when there are fewer than 3 interactions or all
\* difficulty levels are equal.
C13_DefinedDefaults ==
    /\ op \in ScoringOps \cup {"trend"} => result.kind = "returned"
    /\ (op = "trend" /\ (Len(interactions) < 3 \/ AllLevelsEqual))
          => result.value = [rat |-> Half, coef |-> Zero, rad |-> Zero]

\* C13 witness: three wrong answers with one timestamp and one difficulty
\* level gave a trend of 0.5.
C13_Witness ==
    /\ op = "trend"
    /\ Len(interactions) = 3
    /\ AllLevelsEqual
    /\ \A k \in DOMAIN interactions :
          /\ interactions[k].timestamp = interactions[1].timestamp
          /\ ~interactions[k].is_correct
    /\ result = Returned([rat |-> Half, coef |-> Zero, rad |-> Zero])

---------------------------------------------------------------------------
(* SpecConfidence: the real-time score over interactions with and without  *)
(* a confidence estimate.                                                  *)

MaxConfident == 3

\* <<confidence, latency, difficulty>>
ConfidenceProfiles ==
    { <<None, 15, "beginner">>, <<One, 15, "advanced">>,
      <<Zero, 0, "beginner">>, <<Half, 45, "elementary">>,
      <<None, -30, "advanced">>, <<One, -30, "beginner">> }

NextConfidence ==
    \/ \E p \in ConfidenceProfiles, ok \in BOOLEAN :
          LogInteraction(Interaction("learner_a", Len(interactions), "c1",
                                     p[3], ok, p[2], p[1], 0, 1),
                         MaxConfident)
    \/ RealTimeEffectiveness

SpecConfidence == InitScoring /\ [][NextConfidence]_vars

\* The interactions that carry a confidence value, and the total of the
\* values carried by those in ks.
Carriers == {k \in DOMAIN interactions : interactions[k].confidence_level # None}

RECURSIVE ConfidenceTotal(_)
ConfidenceTotal(ks) ==
    IF ks = {} THEN Zero
    ELSE LET k == CHOOSE x \in ks : TRUE
         IN  RAdd(interactions[k].confidence_level, ConfidenceTotal(ks \ {k}))

ConfidenceComponent ==
    IF Carriers = {} THEN Half
    ELSE RDiv(ConfidenceTotal(Carriers), Rat(Cardinality(Carriers), 1))

\* 0.4*accuracy + 0.2*max(0, 1 - avg_latency/30) + 0.2*confidence
\* + 0.2*trend of the interactions, clamped to [0,1].
ExpectedRealTime ==
    LET accuracy ==
            Rat(Cardinality({k \in DOMAIN interactions :
                                interactions[k].is_correct}),
                Len(interactions))
        speed ==
            RMax(Zero, RSub(One, RDiv(FieldAverage("response_time_seconds"),
                                      Rat(30, 1))))
        unclamped ==
            SScaleAdd(Rat(1, 5), CalculateDifficultyTrend(interactions),
                      RAdd(RAdd(RMul(Rat(2, 5), accuracy),
                                RMul(Rat(1, 5), speed)),
                           RMul(Rat(1, 5), ConfidenceComponent)))
    IN  IF SLeRat(unclamped, Zero) THEN FromRat(Zero)
        ELSE IF SLeRat(unclamped, One) THEN unclamped
        ELSE FromRat(One)

\* C14: in the real-time score a missing confidence is not an error and is
\* left out of the confidence mean, which is taken over the interactions
\* that carry a value and is 0.5 when none does; the score is
\* 0.4*accuracy + 0.2*max(0, 1 - avg_latency/30) + 0.2*confidence
\* + 0.2*trend, clamped to [0,1].
C14_ConfidenceMean ==
    (op = "real_time" /\ interactions # <<>>) =>
        /\ result.kind = "returned"
        /\ result.value = ExpectedRealTime

\* C14 witness: a sequence in which one interaction carries a confidence of
\* 1.0 and another carries none was scored.
C14_Witness ==
    /\ op = "real_time"
    /\ result.kind = "returned"
    /\ Carriers # {}
    /\ Carriers # DOMAIN interactions
    /\ ConfidenceComponent = One

---------------------------------------------------------------------------
(* SpecCalls: every operation of the analyzer, in any order, on lists that *)
(* are oldest first or newest first; analyze_user_effectiveness changes    *)
(* the caches between the other calls.                                     *)

MaxCalls == 2

NextCalls ==
    \/ \E ts \in NextTimestamps, c \in Contents, ok \in BOOLEAN :
          LogInteraction(Plain(ts, c, "beginner", ok), MaxCalls)
    \/ ImmediateEffectiveness
    \/ RetentionEffectiveness
    \/ ProgressionEffectiveness
    \/ RealTimeEffectiveness
    \/ LearningPatternsAI
    \/ LearningPatterns
    \/ \E u \in UserIds, d \in Timeframes : AnalyzeUserEffectiveness(u, d)

SpecCalls == Init /\ [][NextCalls]_vars

\* The scores as functions of the arguments alone.
ExpectedRetention ==
    IF Repeated = {} THEN Half
    ELSE RDiv(SumOfRatios(Repeated), Rat(Cardinality(Repeated), 1))

ExpectedProgression ==
    IF DOMAIN progress_data = {} THEN Half
    ELSE RAdd(RAdd(RMul(Rat(2, 5),
                        RMin(RDiv(Field("difficulty_progression"), Rat(5, 1)),
                             One)),
                   RMul(Rat(2, 5), RMin(Field("mastery_rate"), One))),
              RMul(Rat(1, 5),
                   RMin(RDiv(Field("learning_velocity"), Rat(10, 1)), One)))

\* C15: a scoring operation (immediate, retention, progression, real-time)
\* gives the same output for the same input whatever calls were made on the
\* analyzer before: its result is a function of its arguments alone and
\* does not depend on analyzer state such as the caches.
C15_DependsOnArgumentsOnly ==
    /\ op = "immediate" =>
          result.value = IF interactions = <<>> THEN Zero ELSE ExpectedImmediate
    /\ op = "retention" => result.value = ExpectedRetention
    /\ op = "progression" => result.value = ExpectedProgression
    /\ op = "real_time" =>
          result.value = IF interactions = <<>> THEN FromRat(Half)
                         ELSE ExpectedRealTime

\* C15 witness: the immediate score was computed while the cache held the
\* analysis of an earlier, different list of interactions.
C15_Witness ==
    /\ op = "immediate"
    /\ "learner_a_30" \in DOMAIN effectiveness_cache
    /\ effectiveness_cache["learner_a_30"].immediate_effectiveness
          # result.value

\* The operations that score or look for patterns.
ReadOnlyOps ==
    {"immediate", "retention", "progression", "real_time", "patterns_ai",
     "patterns"}

\* C16: no scoring or pattern operation changes its input: after a call the
\* caller's interaction list has the same records in the same order, with
\* unchanged fields, and the progress summary is unchanged.
C16_InputsUntouched ==
    [][op' \in ReadOnlyOps =>
          /\ interactions' = interactions
          /\ progress_data' = progress_data]_vars

\* C16 witness: retention was computed from a list that is still newest
\* first.
C16_Witness ==
    /\ op = "retention"
    /\ Len(interactions) = 2
    /\ interactions[1].timestamp > interactions[2].timestamp
    /\ \A k \in DOMAIN interactions : interactions[k].content_id = "c1"

---------------------------------------------------------------------------
(* SpecConcurrent: two analyze_user_effectiveness calls for one learner    *)
(* that overlap in time, over stored data that does not change while they  *)
(* run.                                                                    *)

MaxStored == 2

TaskIds == {1, 2}

NextConcurrent ==
    \/ /\ tasks = <<>>
       /\ \E ts \in NextTimestamps, c \in Contents, ok \in BOOLEAN :
             LogInteraction(Plain(ts, c, "beginner", ok), MaxStored)
    \/ \E t \in TaskIds, u \in UserIds, d \in Timeframes : TaskStart(t, u, d)
    \/ \E t \in TaskIds : TaskListFiles(t)
    \/ \E t \in TaskIds : TaskReadFile(t)
    \/ \E t \in TaskIds : TaskReadProgress(t)
    \/ \E t \in TaskIds : TaskCalculate(t)
    \/ \E t \in TaskIds : TaskSave(t)

SpecConcurrent == Init /\ [][NextConcurrent]_vars

\* What one call for learner_a and 30 days, run alone over the stored data,
\* returns and leaves in the cache.
AloneAnalysis ==
    LET its == GetUserInteractions("learner_a")
    IN  IF its = <<>> THEN CreateEmptyAnalysis("learner_a", 30)
        ELSE BuildAnalysis("learner_a", 30, its, progress_data)

AloneCache ==
    IF GetUserInteractions("learner_a") = <<>> THEN <<>>
    ELSE "learner_a_30" :> AloneAnalysis

AllTasksDone ==
    \A t \in TaskIds : t \in DOMAIN tasks /\ tasks[t].pc = "done"

\* C17: when two analyze_user_effectiveness calls for the same learner and
\* timeframe interleave at their await points over the same stored data,
\* each returns what it would return if run alone, and the
\* effectiveness_cache they leave behind is the one a sequential order of
\* the two calls leaves.
C17_ConcurrentCallsAgree ==
    /\ \A t \in DOMAIN tasks :
          tasks[t].pc = "done" => tasks[t].returned = AloneAnalysis
    /\ AllTasksDone => effectiveness_cache = AloneCache

\* C17 witness: both overlapping calls have returned an analysis of two
\* stored interactions, one correct and one wrong.
C17_Witness ==
    /\ AllTasksDone
    /\ Len(interactions) = 2
    /\ interactions[1].is_correct # interactions[2].is_correct
    /\ tasks[1].returned = tasks[2].returned
    /\ "learner_a_30" \in DOMAIN effectiveness_cache

---------------------------------------------------------------------------
(* SpecProgress: calculate_learning_progress over lesson counts.           *)

MaxLessons == 10

LessonCounts == -2 .. MaxLessons

NextProgress ==
    \E completed \in -2 .. MaxLessons + 5, total \in LessonCounts :
        LearningProgress(completed, total)

SpecProgress == InitScoring /\ [][NextProgress]_vars

---------------------------------------------------------------------------
(* SpecFoundry: FoundryManager.is_available over managers and health check *)
(* outcomes.                                                               *)

ModelAliases == {"phi-3.5-mini", "custom-model", "qwen2.5-0.5b"}

\* What get_model_info of the SDK manager does.
HealthOutcomes ==
    {"ok", "Exception", "ConnectionError", "TimeoutError", "KeyError",
     "FoundryManagerError", "RuntimeError", "OSError", "ValueError"}

NextFoundry ==
    \E alias \in ModelAliases, test_mode \in BOOLEAN,
       manager \in {None, SdkManager}, health \in HealthOutcomes :
        FoundryIsAvailable(FoundryManager(alias, test_mode, manager), health)

SpecFoundry == InitScoring /\ [][NextFoundry]_vars

\* C20: FoundryManager.is_available never raises: it returns True when the
\* health check (get_model_info on the SDK manager) succeeds or the manager
\* is in test mode, and False when the SDK manager is absent or the health
\* check raises an exception.
C20_IsAvailableNeverRaises ==
    op = "is_available" =>
        /\ result.kind = "returned"
        /\ result.value \in BOOLEAN
        /\ args.self.test_mode => result.value = TRUE
        /\ (~args.self.test_mode /\ args.self._manager # None
              /\ args.health = "ok") => result.value = TRUE
        /\ (~args.self.test_mode /\ args.self._manager = None)
              => result.value = FALSE
        /\ (~args.self.test_mode /\ args.self._manager # None
              /\ args.health # "ok") => result.value = FALSE

\* C20 witness: the health check of an initialised manager raised and
\* is_available returned False.
C20_Witness ==
    /\ op = "is_available"
    /\ ~args.self.test_mode
    /\ args.self._manager # None
    /\ args.health = "ConnectionError"
    /\ result = Returned(FALSE)

---------------------------------------------------------------------------
(* SpecModelInfo: is_available and get_model_info of a FoundryManager, in  *)
(* any order, over managers and outcomes of the SDK call.                  *)

NextModelInfo ==
    \E alias \in ModelAliases, test_mode \in BOOLEAN,
       manager \in {None, SdkManager}, sdk \in HealthOutcomes :
        \/ FoundryIsAvailable(FoundryManager(alias, test_mode, manager), sdk)
        \/ FoundryGetModelInfo(FoundryManager(alias, test_mode, manager), sdk)

SpecModelInfo == InitScoring /\ [][NextModelInfo]_vars

\* C21: FoundryManager.get_model_info either returns the SDK's model-info
\* object for the configured alias or raises FoundryManagerError: it
\* returns when the SDK manager exists and its call returns, and every
\* failure (no SDK manager, or an exception from the SDK) is a
\* FoundryManagerError.
C21_ModelInfoOrFoundryManagerError ==
    op = "get_model_info" =>
        IF args.self._manager # None /\ args.sdk = "ok"
        THEN result = Returned(ModelInfo(args.self.model_alias))
        ELSE /\ result.kind = "raised"
             /\ result.value.type = "FoundryManagerError"

\* C21 witness: the SDK raised KeyError for an initialised manager and
\* get_model_info raised FoundryManagerError.
C21_Witness ==
    /\ op = "get_model_info"
    /\ args.self._manager # None
    /\ args.sdk = "KeyError"
    /\ result.kind = "raised"
    /\ result.value.type = "FoundryManagerError"

---------------------------------------------------------------------------
(* SpecService: constructing a SemanticKernelFoundryService over managers, *)
(* with and without the semantic-kernel package, and over what the SDK and *)
(* the connector do.                                                       *)

\* What the OpenAIChatCompletion constructor does.
ConnectorOutcomes == {"ok", "ServiceInitializationError"}

\* What the SDK does in the two places the constructor reaches it.
SdkOutcomes == {"ok", "ConnectionError", "KeyError"}

NextService ==
    \E alias \in ModelAliases, test_mode \in BOOLEAN,
       manager \in {None, SdkManager}, kernel_installed \in BOOLEAN,
       health \in SdkOutcomes, sdk \in SdkOutcomes,
       connector \in ConnectorOutcomes :
        CreateService(FoundryManager(alias, test_mode, manager),
                      kernel_installed, health, sdk, connector)

SpecService == InitScoring /\ [][NextService]_vars

\* The names of the calls made by the last operation.
Called == {calls[k].name : k \in DOMAIN calls}

\* C22: constructing SemanticKernelFoundryService with a FoundryManager
\* whose is_available() is False raises SemanticKernelError before a kernel
\* is created and before model info, endpoint or API key is requested, and
\* no attribute of the service has been set.
C22_UnavailableManagerRejected ==
    (op = "create_service"
       /\ IsAvailable(args.foundry_manager, args.health) = Returned(FALSE)) =>
        /\ result.kind = "raised"
        /\ result.value.type = "SemanticKernelError"
        /\ Called \cap {"Kernel", "get_model_info", "endpoint", "api_key",
                        "OpenAIChatCompletion", "add_service"} = {}
        /\ service = <<>>

\* C22 witness: the health check of an initialised manager failed while
\* everything the kernel needs would have worked, and the constructor
\* raised after asking is_available only.
C22_Witness ==
    /\ op = "create_service"
    /\ args.kernel_installed
    /\ ~args.foundry_manager.test_mode
    /\ args.foundry_manager._manager # None
    /\ args.health = "ConnectionError"
    /\ args.sdk = "ok"
    /\ args.connector = "ok"
    /\ Called = {"is_available"}
    /\ result = Raised(SemanticKernelError("Foundry Local is not available"))

\* C29: whenever is_available() returns True, a following
\* get_model_info() does not fail with 'Manager not initialized'; so the
\* constructor of SemanticKernelFoundryService, on a manager that reports
\* itself available, fails with SemanticKernelError or not at all.
C29_AvailableManagerInitialises ==
    (op = "create_service" /\ args.kernel_installed
       /\ IsAvailable(args.foundry_manager, args.health) = Returned(TRUE)
       /\ result.kind = "raised") =>
        /\ result.value.message #
              "Failed to get model info: Manager not initialized"
        /\ result.value.type = "SemanticKernelError"

---------------------------------------------------------------------------
(* SpecChat: chat_completion calls on a constructed service, with and      *)
(* without a caller-supplied history, over what the kernel, the history    *)
(* and the model do.                                                       *)

MaxHistory == 4

\* The manager the service is constructed on.
RunningManager == FoundryManager("phi-3.5-mini", FALSE, SdkManager)

UserMessages == {"ni hao", "zai jian"}

\* The responses of the model: text, the empty string, no content.
Responses == {Message("assistant", content) :
                 content \in {Some("hen hao"), Some(""), None}}

ModelOutcomes ==
    {Returned(response) : response \in Responses}
        \cup {Raised("Exception"), Raised("TimeoutError")}

ChatCollaborators ==
    {Collaborators("ok", "ok", model, adding) :
        model \in ModelOutcomes,
        adding \in {"ok", "TypeError", "AttributeError", "ValueError"}}
      \cup {Collaborators("KernelServiceNotFoundError", "ok",
                          Returned(Message("assistant", Some("hen hao"))), "ok"),
            Collaborators("ok", "ValidationError",
                          Returned(Message("assistant", Some("hen hao"))), "ok")}

NextChat ==
    \/ CreateService(RunningManager, TRUE, "ok", "ok", "ok")
    \/ \E message \in UserMessages, supplied \in BOOLEAN,
          enable_function_calling \in BOOLEAN, does \in ChatCollaborators :
          ChatCompletion(message, supplied, enable_function_calling, does,
                         MaxHistory)

SpecChat == InitScoring /\ [][NextChat]_vars

\* C23: chat_completion returns the content of the model's response, the
\* empty string when that content is empty or None; when obtaining the
\* chat service, building the history, calling the model or recording the
\* response fails, it raises SemanticKernelError and nothing else.
C23_ContentOrSemanticKernelError ==
    op = "chat_completion" =>
        IF /\ args.does.lookup = "ok"
           /\ args.does.building = "ok"
           /\ args.does.model.kind = "returned"
           /\ args.does.adding \in {"ok", "TypeError", "AttributeError"}
        THEN /\ result.kind = "returned"
             /\ result.value =
                   IF args.does.model.value.content \in {None, Some("")}
                   THEN ""
                   ELSE args.does.model.value.content[1]
        ELSE /\ result.kind = "raised"
             /\ result.value.type = "SemanticKernelError"

\* C23 witness: the model answered with no content and chat_completion
\* returned the empty string.
C23_Witness ==
    /\ op = "chat_completion"
    /\ args.does.model = Returned(Message("assistant", None))
    /\ args.does.adding = "ok"
    /\ result = Returned("")

\* The user message of the last chat_completion call, as the history
\* holds it.
UserMessage == Message("user", Some(args.message))

\* The last chat_completion call was given the caller's history and
\* reached the model.
ReachedModelWithHistory ==
    /\ op = "chat_completion"
    /\ args.supplied
    /\ args.does.lookup = "ok"
    /\ args.does.building = "ok"

\* The history the model was called with.
HistoryAtModelCall == calls[2].arg.chat_history

\* C28: chat_completion with a caller-supplied history appends the user
\* message before the model is called and the response after the call
\* returns: after a successful call the history is the prior history, the
\* user message, then the response; after a failed model call it is the
\* prior history followed by the user message.
C28_HistoryRecordsExchange ==
    ReachedModelWithHistory =>
        /\ HistoryAtModelCall = Append(args.chat_history, UserMessage)
        /\ result.kind = "returned" =>
              chat_history = args.chat_history
                                \o <<UserMessage, args.does.model.value>>
        /\ args.does.model.kind = "raised" =>
              chat_history = Append(args.chat_history, UserMessage)

\* C28 amended: the response is appended only when chat_history.add_message
\* accepts it.  When add_message raises TypeError or AttributeError the call
\* still succeeds and the history ends with the user message; after any
\* failed call that reached the model the history ends with the user
\* message as well.
C28_HistoryRecordsAcceptedExchange ==
    ReachedModelWithHistory =>
        /\ HistoryAtModelCall = Append(args.chat_history, UserMessage)
        /\ (result.kind = "returned" /\ args.does.adding = "ok") =>
              chat_history = args.chat_history
                                \o <<UserMessage, args.does.model.value>>
        /\ (result.kind = "returned" /\ args.does.adding # "ok") =>
              /\ args.does.adding \in {"TypeError", "AttributeError"}
              /\ chat_history = Append(args.chat_history, UserMessage)
        /\ result.kind = "raised" =>
              chat_history = Append(args.chat_history, UserMessage)

\* C28 witness: a second exchange on the caller's history, whose response
\* add_message rejected with TypeError: the call returned the content and
\* the history ends with the user message.
C28_Witness ==
    /\ ReachedModelWithHistory
    /\ Len(args.chat_history) = 2
    /\ args.does.adding = "TypeError"
    /\ result = Returned("hen hao")
    /\ chat_history = Append(args.chat_history, UserMessage)

---------------------------------------------------------------------------
(* SpecStream: one streaming_chat_completion generator per behaviour, over  *)
(* streams of up to MaxChunks chunks that end or fail, consumed one        *)
(* __anext__ at a time.                                                    *)

MaxChunks == 3
MaxStreamHistory == 1

\* The content of a chunk: text, the empty string, no content.
ChunkContents == {Some("ni"), Some("hao"), Some(""), None}

ChunkLists ==
    UNION {[1..n -> ChunkContents] : n \in 0..MaxChunks}

StreamEndings == {"end", "ConnectionError"}

NextStream ==
    \/ /\ service = <<>>
       /\ CreateService(RunningManager, TRUE, "ok", "ok", "ok")
    \/ /\ stream = None
       /\ \E supplied \in BOOLEAN, chunks \in ChunkLists,
             ending \in StreamEndings :
             StreamingChatCompletion("ni hao", supplied, "ok", chunks, ending)
    \/ /\ stream = None
       /\ \E supplied \in BOOLEAN :
             StreamingChatCompletion("ni hao", supplied,
                                     "KernelServiceNotFoundError",
                                     <<Some("ni")>>, "end")
    \/ StreamNext(MaxStreamHistory)

SpecStream == InitScoring /\ [][NextStream]_vars

\* The chunks the stream underneath has produced so far.
Produced == SubSeq(stream.chunks, 1, stream.position)

\* The contents of the chunks of s that have a non-empty content.
NonEmptyContents(s) ==
    LET kept == SelectSeq(s, LAMBDA c : c # None /\ c # Some(""))
    IN  [k \in DOMAIN kept |-> kept[k][1]]

\* C24: streaming_chat_completion yields exactly the non-empty chunk
\* contents the underlying stream produced, in the stream's order, nothing
\* duplicated, reordered or dropped but the chunks with empty content; it
\* ends when the stream ends, and a failure of the stream ends it with
\* SemanticKernelError after the chunks already yielded.
C24_YieldsNonEmptyChunksInOrder ==
    op \in {"streaming_chat_completion", "anext"} =>
        /\ stream.yielded = NonEmptyContents(Produced)
        /\ stream.status = "suspended" =>
              result = Returned(stream.yielded[Len(stream.yielded)])
        /\ stream.status = "exhausted" =>
              /\ stream.ending = "end"
              /\ stream.yielded = NonEmptyContents(stream.chunks)
              /\ result.kind = "raised"
              /\ result.value.type = "StopAsyncIteration"
        /\ stream.status = "failed" =>
              /\ result.kind = "raised"
              /\ result.value.type = "SemanticKernelError"
              /\ stream.lookup = "ok" =>
                    /\ stream.ending # "end"
                    /\ stream.yielded = NonEmptyContents(stream.chunks)

\* C24 witness: the stream produced "ni", an empty chunk and "hao" and then
\* failed; the generator had yielded "ni" and "hao" when it raised
\* SemanticKernelError.
C24_Witness ==
    /\ op = "anext"
    /\ stream.chunks = <<Some("ni"), Some(""), Some("hao")>>
    /\ stream.ending = "ConnectionError"
    /\ stream.status = "failed"
    /\ stream.yielded = <<"ni", "hao">>
    /\ result.kind = "raised"
    /\ result.value.type = "SemanticKernelError"

---------------------------------------------------------------------------
(* SpecCache: analyze_user_effectiveness calls for several learners and    *)
(* timeframes, with and without failing collaborators, between logged      *)
(* interactions.  The learner ids and timeframes are chosen so that keys   *)
(* built carelessly would collide ("u" with 11 days, "u1" with 1 day).     *)

MaxCached == 3

CacheUsers == {"u", "u1"}
CacheTimeframes == {1, 11}

CacheInteractions ==
    {Interaction(u, 0, "c1", "beginner", TRUE, 0, None, 0, 1) :
        u \in CacheUsers}

\* The calls of SpecCache: without a fault, with no data read, and with a
\* failure after the cache was written.
CacheFaults == {"none", "get_user_interactions", "track_performance"}

NextCache ==
    \/ \E i \in CacheInteractions : LogInteraction(i, MaxCached)
    \/ \E u \in CacheUsers, d \in CacheTimeframes, f \in CacheFaults :
          AnalyzeUserEffectivenessFailing(u, d, f)

SpecCache == InitScoring /\ [][NextCache]_vars

\* The (user_id, timeframe_days) pairs that have an entry in the cache.
CachedPairs ==
    {<<effectiveness_cache[key].user_id,
       effectiveness_cache[key].timeframe_days>> :
        key \in DOMAIN effectiveness_cache}

\* Every entry is the analysis of the pair its key is built from, and no
\* two pairs share a key.
EntriesMatchPairs ==
    /\ \A key \in DOMAIN effectiveness_cache :
          key = CacheKey(effectiveness_cache[key].user_id,
                         effectiveness_cache[key].timeframe_days)
    /\ \A u1 \in CacheUsers, u2 \in CacheUsers :
          \A d1 \in CacheTimeframes, d2 \in CacheTimeframes :
              <<u1, d1>> # <<u2, d2>> => CacheKey(u1, d1) # CacheKey(u2, d2)
    /\ Cardinality(DOMAIN effectiveness_cache) = Cardinality(CachedPairs)

\* No step removes an entry; a step that changes or adds entries is an
\* analyze_user_effectiveness call that had data, and it writes only the
\* entry of the pair it was called for.
EntriesOnlyGrow ==
    /\ DOMAIN effectiveness_cache \subseteq DOMAIN effectiveness_cache'
    /\ \A key \in DOMAIN effectiveness_cache' :
          (key \notin DOMAIN effectiveness_cache
             \/ effectiveness_cache'[key] # effectiveness_cache[key]) =>
              /\ op' = "analyze"
              /\ key = CacheKey(effectiveness_cache'[key].user_id,
                                effectiveness_cache'[key].timeframe_days)
              /\ \E k \in DOMAIN interactions :
                    interactions[k].user_id = effectiveness_cache'[key].user_id
              /\ \A other \in DOMAIN effectiveness_cache \ {key} :
                    effectiveness_cache'[other] = effectiveness_cache[other]

---------------------------------------------------------------------------
(* SpecRequests: analyze_user_effectiveness as its caller sees it, for two *)
(* learners, with every fault of its collaborators.                        *)

MaxRequested == 2

NextRequests ==
    \/ \E i \in CacheInteractions : LogInteraction(i, MaxRequested)
    \/ \E u \in CacheUsers, f \in Faults :
          AnalyzeUserEffectivenessCall(u, 11, f)

SpecRequests == Init /\ [][NextRequests]_vars

\* The neutral analysis for the arguments of the last call.
NeutralForRequest ==
    EffectivenessAnalysis(args.user_id, args.timeframe_days,
                          Half, Half, Half, Half, <<>>)

\* The learner of the last call has stored interactions.
RequestHasData ==
    \E k \in DOMAIN interactions : interactions[k].user_id = args.user_id

\* C26: analyze_user_effectiveness never raises: whatever its collaborators
\* do it returns an EffectivenessAnalysis for the requested user and
\* timeframe, and when the user has no interactions or any step raises
\* that analysis is the neutral one (all four scores 0.5, no patterns).
C26_NeutralWheneverAStepRaises ==
    op = "analyze" =>
        /\ result.kind = "returned"
        /\ result.value.user_id = args.user_id
        /\ result.value.timeframe_days = args.timeframe_days
        /\ (~RequestHasData \/ args.fault # "none") =>
              result.value = NeutralForRequest

\* The faults that reach the handler of lines 153-155 or empty the
\* interaction list.
StopsTheAnalysis(fault) ==
    fault \in {"get_user_interactions", "calculate", "track_performance"}

\* C26 amended: the call never raises and returns an analysis for the
\* requested user and timeframe.  The analysis is the neutral one when the
\* user has no interactions, when reading the interactions fails, when a
\* calculation raises or when the performance tracker raises.  A failure
\* while reading the progress or retention file or while saving is
\* swallowed where it happens, and the call returns the analysis computed
\* from the data it has (without the progress summary when that read
\* failed).
C26_NeutralWhenTheAnalysisStops ==
    op = "analyze" =>
        /\ result.kind = "returned"
        /\ result.value.user_id = args.user_id
        /\ result.value.timeframe_days = args.timeframe_days
        /\ (~RequestHasData \/ StopsTheAnalysis(args.fault)) =>
              result.value = NeutralForRequest
        /\ (RequestHasData /\ ~StopsTheAnalysis(args.fault)) =>
              LET its == SelectSeq(interactions,
                                   LAMBDA i : i.user_id = args.user_id)
                  progress == IF args.fault = "get_user_progress"
                              THEN <<>> ELSE progress_data
                  built == BuildAnalysis(args.user_id, args.timeframe_days,
                                         its, progress)
              IN  IF CalculationRaised(built)
                  THEN result.value = NeutralForRequest
                  ELSE result.value = built

\* C26 witness: the save failed for a learner with data and the call
\* returned an analysis that is not the neutral one.
C26_Witness ==
    /\ op = "analyze"
    /\ args.fault = "save"
    /\ RequestHasData
    /\ result.kind = "returned"
    /\ result.value # NeutralForRequest
    /\ result.value = effectiveness_cache[CacheKey(args.user_id,
                                                   args.timeframe_days)]

\* C27: whenever a call of analyze_user_effectiveness writes an analysis
\* into effectiveness_cache or saves one to the data store, it returns that
\* same analysis: the cache entry of a (user, timeframe) key is the value
\* returned by the call that wrote it last.
C27_ReturnsWhatItStores ==
    [][(op' = "analyze"
          /\ (effectiveness_cache' # effectiveness_cache
                \/ data_lake_saved' # data_lake_saved)) =>
            result'.value =
                effectiveness_cache'[CacheKey(args'.user_id,
                                              args'.timeframe_days)]]_vars

---------------------------------------------------------------------------
(* SpecMastery: estimate_mastery_time over lists of up to MaxMastery       *)
(* interactions (more than the window of 10) whose timestamps are equal,   *)
(* ascending or descending and whose first answers are wrong and the rest  *)
(* correct, or the reverse.                                                *)

MaxMastery == 12

Clocks == {"equal", "ascending", "descending"}

\* n interactions: the first k answered correct_first, the rest the
\* other way.
MasteryList(n, k, correct_first, clock) ==
    [i \in 1..n |->
        Plain(CASE clock = "equal" -> 0
                [] clock = "ascending" -> i
                [] clock = "descending" -> n - i,
              "c1", "beginner",
              IF i <= k THEN correct_first ELSE ~correct_first)]

MasteryLists ==
    {MasteryList(n, k, correct_first, clock) :
        n \in 0..MaxMastery, k \in 0..MaxMastery,
        correct_first \in BOOLEAN, clock \in Clocks}

MasteryThresholds == {Rat(17, 20), Half, One}

NextMastery ==
    \E s \in MasteryLists, mastery_threshold \in MasteryThresholds :
        EstimateMastery(s, mastery_threshold)

SpecMastery == InitScoring /\ [][NextMastery]_vars

\* The accuracy of the last min(10, n) interactions of the last call.
WindowAccuracy ==
    LET s == args.interactions
        first == IF Len(s) > 10 THEN Len(s) - 9 ELSE 1
        correct == {k \in first..Len(s) : s[k].is_correct}
    IN  Rat(Cardinality(correct), Len(s) - first + 1)

\* C30: estimate_mastery_time is total: it returns without raising for
\* every interaction list and threshold, None for the empty list, a zero
\* duration when the accuracy of the last min(10, n) interactions is at
\* least the threshold, and otherwise None or a strictly positive
\* duration, also when all timestamps are equal or out of order.
C30_MasteryTimeIsTotal ==
    op = "estimate_mastery_time" =>
        /\ result.kind = "returned"
        /\ IF args.interactions = <<>> THEN result.value = None
           ELSE IF RLe(args.mastery_threshold, WindowAccuracy)
           THEN result.value = Zero
           ELSE \/ result.value = None
                \/ /\ result.value # None
                   /\ RLt(Zero, result.value)

=============================================================================
